---- MODULE Spec2Model ----
(***************************************************************************)
(* A model of the DropOut launcher's launch pipeline (src-tauri/src):      *)
(*   - core/downloader.rs  download_files, GlobalProgress, verify_checksum *)
(*   - main.rs             start_game (the part around the download run)   *)
(*   - core/version_merge.rs, core/manifest.rs  merge and inheritance      *)
(*                                                                         *)
(* Three groups of variables, one per subsystem, and one specification per *)
(* subsystem: a specification runs its own subsystem and leaves the other  *)
(* groups at their idle value.                                             *)
(*   Spec, SpecFair, SpecRepeat   the download engine                      *)
(*   SpecMerge                    merge_versions on enumerated inputs      *)
(*   SpecResolve                  load_version / resolve_inheritance       *)
(***************************************************************************)
EXTENDS Integers, Sequences, FiniteSets, TLC

(***************************************************************************)
(* Option<T>: None is the empty tuple, Some(x) the one-element tuple.      *)
(***************************************************************************)
None == <<>>

Some(x) == <<x>>

IsSome(o) == o # None

Unwrap(o) == o[1]

\* Option::or
OrElse(a, b) == IF IsSome(a) THEN a ELSE b

(***************************************************************************)
(*                    PART 1 - THE DOWNLOAD ENGINE                         *)
(***************************************************************************)

\* Bound: the number of tasks of the list handed to download_files.
NTasks == 2

\* downloader.rs:143  max_concurrent.clamp(1, 128)
MinConcurrent == 1

MaxConcurrentCap == 128

Tasks == 1..NTasks

Paths == {"p", "q"}

(***************************************************************************)
(* File contents are byte sequences.  A response body is a sequence of     *)
(* chunks, each a byte sequence; BodyA arrives in two chunks of sizes 2    *)
(* and 1, BodyB in one chunk of size 1.  The server answers every URL with *)
(* a body: reqwest's send() is Ok for any HTTP status, so the body may be  *)
(* anything, whatever the digest the task expects.                         *)
(***************************************************************************)
BodyA == << <<1, 1>>, <<2>> >>

BodyB == << <<2>> >>

Urls == {"urlA", "urlB"}

ServerBody(url) == IF url = "urlA" THEN BodyA ELSE BodyB

RECURSIVE Flatten(_)
Flatten(chunks) ==
  IF chunks = <<>> THEN <<>> ELSE Head(chunks) \o Flatten(Tail(chunks))

ContentA == Flatten(BodyA)

ContentB == Flatten(BodyB)

\* downloader.rs:33-37; hex(SHA-256(data)): modelled as an injective tagging
compute_sha256(data) == <<"sha256", data>>

\* downloader.rs:40-44
compute_sha1(data) == <<"sha1", data>>

\* a plausible slip: the fallback digest is consulted first
verify_checksum_sha1_first(data, sha256, sha1) ==
  IF IsSome(sha1) THEN compute_sha1(data) = Unwrap(sha1)
  ELSE IF IsSome(sha256) THEN compute_sha256(data) = Unwrap(sha256)
  ELSE TRUE

\* downloader.rs:47-56
verify_checksum(data, sha256, sha1) ==
  IF IsSome(sha256) THEN compute_sha256(data) = Unwrap(sha256)
  ELSE IF IsSome(sha1) THEN compute_sha1(data) = Unwrap(sha1)
  ELSE TRUE

\* a plausible slip: the lower bound of the clamp is forgotten
clamp_no_lower(n) == IF n > MaxConcurrentCap THEN MaxConcurrentCap ELSE n

\* downloader.rs:143
clamp_concurrency(n) ==
  IF n < MinConcurrent THEN MinConcurrent
  ELSE IF n > MaxConcurrentCap THEN MaxConcurrentCap
  ELSE n

\* a plausible slip: a load followed by a store of the same value
inc_completed_lost(c) == c

\* downloader.rs:91-98  fetch_add(1) + 1
inc_completed(c) == c + 1

\* a plausible slip: the counter is stored, not added to
add_bytes_store(total, delta) == delta

\* downloader.rs:101-111  fetch_add(delta) + delta
add_bytes(total, delta) == total + delta

\* downloader.rs:57-63  ProgressSnapshot: the counts an event carries
ProgressSnapshot(completed, bytes) ==
  [completed_files |-> completed, total_downloaded_bytes |-> bytes]

\* a plausible slip: the snapshot is taken of counters of its own
snapshot_fresh(completed, bytes) == ProgressSnapshot(0, 0)

\* downloader.rs:82-88  snapshot(): both counters are loaded
snapshot(completed, bytes) == ProgressSnapshot(completed, bytes)

\* a plausible slip: the permit is forgotten (mem::forget) and never returned
release_permit_leak(p) == p

\* downloader.rs:159  the _permit guard is dropped when the task's future returns
release_permit(p) == p + 1

(***************************************************************************)
(* The file system: a path holds nothing, something that exists and cannot *)
(* be read as a file (a directory), or a file with its bytes.  Only the    *)
(* tasks of the invocation change it.                                      *)
(***************************************************************************)
Absent == [kind |-> "absent", data |-> <<>>]

Directory == [kind |-> "dir", data |-> <<>>]

File(data) == [kind |-> "file", data |-> data]

Max(a, b) == IF a >= b THEN a ELSE b

\* tokio write_all at the handle's own offset: a hole left by another
\* writer's truncation reads as zero bytes
WriteAt(data, off, chunk) ==
  [i \in 1..Max(Len(data), off + Len(chunk)) |->
     IF i > off /\ i <= off + Len(chunk) THEN chunk[i - off]
     ELSE IF i <= Len(data) THEN data[i]
     ELSE 0]

\* downloader.rs:12-19  DownloadTask
DigestChoices ==
  { [sha256 |-> None, sha1 |-> None],
    [sha256 |-> None, sha1 |-> Some(compute_sha1(ContentA))],
    [sha256 |-> Some(compute_sha256(ContentA)), sha1 |-> None],
    [sha256 |-> Some(compute_sha256(ContentA)),
     sha1 |-> Some(compute_sha1(ContentB))] }

DownloadTask ==
  { [url |-> u, path |-> p, sha256 |-> d.sha256, sha1 |-> d.sha1] :
      u \in Urls, p \in Paths, d \in DigestChoices }

FileChoices == {Absent, Directory, File(ContentA), File(ContentB)}

\* the requested max_concurrent: below, inside and above the clamp's range
ConcurrencyChoices == {0, 2, MaxConcurrentCap + 1}

OkStatus == {"Skipped", "Finished"}

ErrStatus == {"ErrRequest", "ErrCreate", "ErrWrite", "ErrDownload"}

TerminalStatus == OkStatus \cup ErrStatus

\* the task holds a permit of the gate: verifying, fetching or writing
GateStatus == {"read", "meta", "send", "stream"}

VARIABLES
  tasks,                  \* download_files' task list
  max_concurrent,         \* the requested bound
  limit,                  \* the clamped bound (semaphore size, buffer size)
  permits,                \* the semaphore's available permits
  completed_files,        \* GlobalProgress.completed_files
  total_downloaded_bytes, \* GlobalProgress.total_downloaded_bytes
  fs,                     \* the file system, by path
  pc,                     \* each task's position
  got,                    \* each task's number of chunks written
  phase,                  \* "running" | "returned"
  complete,               \* download-complete has been emitted
  launch,                 \* start_game after the run: "none" | "spawned" | "failed"
  run,                    \* 1, or 2 in the repeat run
  \* history, read by the properties only
  requests,               \* network requests sent by each task
  incs,                   \* increments of completed_files by each task
  emitted,                \* status of each download-progress event of each task
  wrote,                  \* chunk bytes written by each task
  skipped_size,           \* size counted by each task for its skipped file
  fs_ops,                 \* creations and writes by each task
  read_valid,             \* the task's read returned content matching its digest
  read_invalid,           \* the task's read returned content not matching it
  prev                    \* repeat run: the first run re-fetched the task's
                          \* mismatching file and ended Finished

dlVars ==
  << tasks, max_concurrent, limit, permits, completed_files,
     total_downloaded_bytes, fs, pc, got, phase, complete, launch, run,
     requests, incs, emitted, wrote, skipped_size, fs_ops, read_valid,
     read_invalid, prev >>

(***************************************************************************)
(* The other subsystems' variables (PART 2).                               *)
(***************************************************************************)
VARIABLES
  m_child,                \* merge_versions' first argument
  m_parent,               \* merge_versions' second argument
  m_result                \* None, or Some(the merged descriptor)

mergeVars == << m_child, m_parent, m_result >>

VARIABLES
  inherits,               \* by id: the descriptor's inherits_from
  defines,                \* by id: the descriptor has downloads / an asset index
  stored,                 \* by id: "local" | "remote" | "missing"
  lv_op,                  \* "load_version" | "resolve_inheritance" | "idle"
  lv_pc,                  \* "local" | "remote" | "loader" | "check" | "done" | "error"
  lv_want,                \* the id being loaded
  lv_version,             \* None, or Some(the current descriptor)
  lv_log                  \* the loads made: <<source, id>> in order

resolveVars ==
  << inherits, defines, stored, lv_op, lv_pc, lv_want, lv_version, lv_log >>

VARIABLES
  rules,                  \* is_library_allowed's argument: Option<Vec<Rule>>
  consts_OS,              \* env::consts::OS of the build
  allowed                 \* None, or Some(the value returned)

ruleVars == << rules, consts_OS, allowed >>

VARIABLES
  auth_op,                \* "complete_microsoft_login" | "refresh_full_auth" | "idle"
  auth_pc,                \* the hop to run next, "save", "done", "updated" or "error"
  auth_input,             \* the device code, or the refresh token, of the call
  auth_now,               \* the clock's seconds
  token_resp,             \* None, or Some(the TokenResponse of the first hop)
  auth_vals,              \* the values the later hops returned, by hop
  auth_result,            \* None, <<"Ok", value>> or <<"Err", error>>
  active_account,         \* AccountState.active_account
  ms_refresh_state,       \* MsRefreshTokenState.token
  store,                  \* accounts.json: AccountStore
  \* history, read by the properties only
  auth_calls,             \* the requests sent: hop, input, response, outcome
  auth_before             \* the session and the store at the call

authVars ==
  << auth_op, auth_pc, auth_input, auth_now, token_resp, auth_vals,
     auth_result, active_account, ms_refresh_state, store, auth_calls,
     auth_before >>

VARIABLES
  expires_at,             \* is_token_expired's argument
  now,                    \* the clock's seconds since the epoch at the call
  expired                 \* None, or Some(the value returned)

expiryVars == << expires_at, now, expired >>

VARIABLES
  account,                \* start_game: the active account at the call
  clock,                  \* the clock's seconds at the launch
  version_details,        \* the resolved descriptor's argument templates
  args,                   \* the argument vector being built
  arg_pc                  \* "account" | "jvm" | "fixed" | "game" | "spawn" |
                          \* "spawned" | "error"

argVars == << account, clock, version_details, args, arg_pc >>

VARIABLES
  child_proc,             \* "none" | "running" | "exited": the game process
  child_status,           \* None, or Some(the exit status of the process)
  pipe,                   \* per output stream, the lines written and not read
  written,                \* per output stream, the count of lines written
  reader_pc,              \* per output stream, "idle" | "reading" | "ended"
  exit_pc,                \* "idle" | "waiting" | "done": the exit monitor
  launch_result,          \* None, or what start_game returned
  window_events           \* the events emitted to the window, in order

procVars ==
  << child_proc, child_status, pipe, written, reader_pc, exit_pc, launch_result,
     window_events >>

VARIABLES
  store_call              \* history: the last AccountStorage call

storeVars == << store_call >>

VARIABLES
  asset_objects,          \* the asset index: logical name -> object hash
  asset_todo,             \* the names the loop has not visited yet
  download_tasks          \* start_game: the task list being built

assetVars == << asset_objects, asset_todo, download_tasks >>

VARIABLES
  mv_name,                \* the coordinate string
  mv_explicit_url,        \* resolve_library_url's explicit_url
  mv_maven_url,           \* resolve_library_url's maven_url
  mv_pc,                  \* "parse" | "path" | "url" | "resolve" | "done"
  mv_coord,               \* None, or Some(what MavenCoordinate::parse gave)
  mv_path,                \* None, or Some(to_path's string)
  mv_base,                \* to_url's base_url
  mv_url,                 \* None, or Some(to_url's string)
  mv_resolved             \* None, or Some(what resolve_library_url gave)

mavenVars ==
  << mv_name, mv_explicit_url, mv_maven_url, mv_pc, mv_coord, mv_path,
     mv_base, mv_url, mv_resolved >>

VARIABLES
  \* history, read by the properties only
  last_progress,          \* None, or Some(the counts the latest
                          \* download-progress event carried)
  final_count             \* per task: None, or Some(the completed_files its
                          \* Skipped or Finished event carried)

progressVars == << last_progress, final_count >>

VARIABLES
  lib_list,               \* version_details.libraries
  lib_index,              \* the library the first loop visits next
  classpath_entries,      \* start_game: the classpath being built
  cp_pc,                  \* "tasks" | "classpath" | "done"
  \* history, read by the properties only
  lib_main_path           \* per library: None, or Some(the path of the
                          \* main-artifact task pushed for it)

libVars ==
  << lib_list, lib_index, classpath_entries, cp_pc, lib_main_path >>

VARIABLES
  login_pc,               \* per concurrent login: "set" | "load" | "save" | "done"
  login_loaded            \* per concurrent login: the store its load() read

loginVars == << login_pc, login_loaded >>

vars ==
  << dlVars, mergeVars, resolveVars, ruleVars, authVars, expiryVars,
     argVars, procVars, storeVars, assetVars, mavenVars, loginVars, progressVars, libVars >>

\* what the download engine's steps leave alone
nonDL ==
  << mergeVars, resolveVars, ruleVars, authVars, expiryVars, argVars,
     procVars, storeVars, assetVars, mavenVars, loginVars, libVars >>

nonMerge ==
  << dlVars, resolveVars, ruleVars, authVars, expiryVars, argVars,
     procVars, storeVars, assetVars, mavenVars, loginVars, progressVars, libVars >>

nonResolve ==
  << dlVars, mergeVars, ruleVars, authVars, expiryVars, argVars,
     procVars, storeVars, assetVars, mavenVars, loginVars, progressVars, libVars >>

nonRules ==
  << dlVars, mergeVars, resolveVars, authVars, expiryVars, argVars,
     procVars, storeVars, assetVars, mavenVars, loginVars, progressVars, libVars >>

nonExpiry ==
  << dlVars, mergeVars, resolveVars, ruleVars, authVars, argVars,
     procVars, storeVars, assetVars, mavenVars, loginVars, progressVars, libVars >>

nonArgs ==
  << dlVars, mergeVars, resolveVars, ruleVars, authVars, expiryVars,
     procVars, storeVars, assetVars, mavenVars, loginVars, progressVars, libVars >>

nonAuth ==
  << dlVars, mergeVars, resolveVars, ruleVars, expiryVars, argVars,
     procVars, storeVars, assetVars, mavenVars, loginVars, progressVars, libVars >>

nonProc ==
  << dlVars, mergeVars, resolveVars, ruleVars, authVars, expiryVars,
     argVars, storeVars, assetVars, mavenVars, loginVars, progressVars, libVars >>

\* the account file's calls change `store` and leave the session alone
nonStore ==
  << dlVars, mergeVars, resolveVars, ruleVars, expiryVars, argVars,
     procVars, assetVars, mavenVars, loginVars, progressVars, libVars,
     auth_op, auth_pc, auth_input, auth_now, token_resp, auth_vals,
     auth_result, active_account, ms_refresh_state, auth_calls,
     auth_before >>

nonAssets ==
  << dlVars, mergeVars, resolveVars, ruleVars, authVars, expiryVars,
     argVars, procVars, storeVars, mavenVars, loginVars, progressVars, libVars >>

nonMaven ==
  << dlVars, mergeVars, resolveVars, ruleVars, authVars, expiryVars,
     argVars, procVars, storeVars, assetVars, loginVars, progressVars, libVars >>

HasDigest(task) == IsSome(task.sha256) \/ IsSome(task.sha1)

\* history only: the digest the task expects is the digest of `data`: SHA-256 when one is
\* given, SHA-1 otherwise
MatchesExpected(data, task) ==
  IF IsSome(task.sha256) THEN <<"sha256", data>> = Unwrap(task.sha256)
  ELSE <<"sha1", data>> = Unwrap(task.sha1)

Holders == {t \in Tasks : pc[t] \in GateStatus}

\* futures in buffer_unordered's in-progress set
InProgress == {t \in Tasks : pc[t] \in GateStatus \cup {"acquire"}}

Downloaded(t) == Len(Flatten(SubSeq(ServerBody(tasks[t].url), 1, got[t])))

\* the state at the call of download_files(window, tasks, max_concurrent),
\* after lines 143-150
DLInit ==
  /\ tasks \in [Tasks -> DownloadTask]
  /\ tasks[1].path = "p"
  /\ fs \in [Paths -> FileChoices]
  /\ (\A t \in Tasks : tasks[t].path = "p") => fs["q"] = Absent
  /\ max_concurrent \in ConcurrencyChoices
  /\ limit = clamp_concurrency(max_concurrent)
  /\ permits = limit
  /\ completed_files = 0
  /\ total_downloaded_bytes = 0
  /\ pc = [t \in Tasks |-> "queued"]
  /\ got = [t \in Tasks |-> 0]
  /\ phase = "running"
  /\ complete = FALSE
  /\ launch = "none"
  /\ run = 1
  /\ requests = [t \in Tasks |-> 0]
  /\ incs = [t \in Tasks |-> 0]
  /\ emitted = [t \in Tasks |-> <<>>]
  /\ wrote = [t \in Tasks |-> 0]
  /\ skipped_size = [t \in Tasks |-> 0]
  /\ fs_ops = [t \in Tasks |-> 0]
  /\ read_valid = [t \in Tasks |-> FALSE]
  /\ read_invalid = [t \in Tasks |-> FALSE]
  /\ prev = [t \in Tasks |-> FALSE]
  /\ last_progress = None
  /\ final_count = [t \in Tasks |-> None]

\* downloader.rs:246-248  buffer_unordered(max_concurrent) takes the next
\* task of the stream, in list order, while fewer than the bound are in progress
Pull(t) ==
  /\ phase = "running"
  /\ pc[t] = "queued"
  /\ \A u \in Tasks : u < t => pc[u] # "queued"
  /\ Cardinality(InProgress) < limit
  /\ pc' = [pc EXCEPT ![t] = "acquire"]
  /\ UNCHANGED << tasks, max_concurrent, limit, permits, completed_files,
                  total_downloaded_bytes, fs, got, phase, complete, launch,
                  run, requests, incs, emitted, wrote, skipped_size, fs_ops,
                  read_valid, read_invalid, prev, nonDL, progressVars >>

\* downloader.rs:159-166  acquire a permit, then the synchronous exists()
\* check and the Verifying event, up to the next await
Acquire(t) ==
  /\ phase = "running"
  /\ pc[t] = "acquire"
  /\ permits > 0
  /\ permits' = permits - 1
  /\ LET task == tasks[t]
         exists == fs[task.path].kind # "absent"
     IN /\ pc' = [pc EXCEPT ![t] =
                    IF exists /\ HasDigest(task) THEN "read" ELSE "send"]
        /\ emitted' = [emitted EXCEPT ![t] =
                         IF exists THEN Append(@, "Verifying") ELSE @]
        /\ last_progress' =
             IF exists
             THEN Some(snapshot(completed_files, total_downloaded_bytes))
             ELSE last_progress
  /\ UNCHANGED final_count
  /\ UNCHANGED << tasks, max_concurrent, limit, completed_files,
                  total_downloaded_bytes, fs, got, phase, complete, launch,
                  run, requests, incs, wrote, skipped_size, fs_ops,
                  read_valid, read_invalid, prev, nonDL >>

\* downloader.rs:167-172  tokio::fs::read and verify_checksum; a failed read
\* or a mismatch falls through to the download
Read(t) ==
  /\ phase = "running"
  /\ pc[t] = "read"
  /\ LET task == tasks[t]
         f == fs[task.path]
         readOk == f.kind = "file"
         valid == readOk /\ verify_checksum(f.data, task.sha256, task.sha1)
     IN /\ pc' = [pc EXCEPT ![t] = IF valid THEN "meta" ELSE "send"]
        /\ read_valid' = [read_valid EXCEPT ![t] =
             readOk /\ MatchesExpected(f.data, task)]
        /\ read_invalid' = [read_invalid EXCEPT ![t] =
             readOk /\ ~MatchesExpected(f.data, task)]
  /\ UNCHANGED << tasks, max_concurrent, limit, permits, completed_files,
                  total_downloaded_bytes, fs, got, phase, complete, launch,
                  run, requests, incs, emitted, wrote, skipped_size, fs_ops,
                  prev, nonDL, progressVars >>

\* downloader.rs:173-189  metadata().len() (0 when it fails), add_bytes when
\* positive, inc_completed, the Skipped event, return Ok
Skip(t) ==
  /\ phase = "running"
  /\ pc[t] = "meta"
  /\ LET f == fs[tasks[t].path]
         size == IF f.kind = "file" THEN Len(f.data) ELSE 0
     IN /\ total_downloaded_bytes' =
             IF size > 0 THEN add_bytes(total_downloaded_bytes, size)
             ELSE total_downloaded_bytes
        /\ skipped_size' = [skipped_size EXCEPT ![t] = Len(f.data)]
  /\ completed_files' = inc_completed(completed_files)
  /\ incs' = [incs EXCEPT ![t] = @ + 1]
  /\ emitted' = [emitted EXCEPT ![t] = Append(@, "Skipped")]
  /\ last_progress' =
       Some(ProgressSnapshot(completed_files', total_downloaded_bytes'))
  /\ final_count' = [final_count EXCEPT ![t] = Some(completed_files')]
  /\ pc' = [pc EXCEPT ![t] = "Skipped"]
  /\ permits' = release_permit(permits)
  /\ UNCHANGED << tasks, max_concurrent, limit, fs, got, phase, complete,
                  launch, run, requests, wrote, fs_ops, read_valid,
                  read_invalid, prev, nonDL >>

\* downloader.rs:196-206,231  create_dir_all, client.get(url).send() and
\* File::create: the request fails, or the creation fails, or the file is
\* created empty (truncated when it exists)
Send(t) ==
  /\ phase = "running"
  /\ pc[t] = "send"
  /\ requests' = [requests EXCEPT ![t] = @ + 1]
  /\ \/ /\ pc' = [pc EXCEPT ![t] = "ErrRequest"]
        /\ permits' = release_permit(permits)
        /\ UNCHANGED << fs, fs_ops >>
     \/ /\ pc' = [pc EXCEPT ![t] = "ErrCreate"]
        /\ permits' = release_permit(permits)
        /\ UNCHANGED << fs, fs_ops >>
     \/ /\ fs[tasks[t].path].kind # "dir"
        /\ fs' = [fs EXCEPT ![tasks[t].path] = File(<<>>)]
        /\ fs_ops' = [fs_ops EXCEPT ![t] = @ + 1]
        /\ pc' = [pc EXCEPT ![t] = "stream"]
        /\ UNCHANGED permits
  /\ UNCHANGED << tasks, max_concurrent, limit, completed_files,
                  total_downloaded_bytes, got, phase, complete, launch, run,
                  incs, emitted, wrote, skipped_size, read_valid,
                  read_invalid, prev, nonDL, progressVars >>

\* downloader.rs:209-229  one turn of the loop: resp.chunk() then
\* file.write_all(); add_bytes and the Downloading event after a write
StreamChunk(t) ==
  /\ phase = "running"
  /\ pc[t] = "stream"
  /\ got[t] < Len(ServerBody(tasks[t].url))
  /\ LET chunk == ServerBody(tasks[t].url)[got[t] + 1]
         p == tasks[t].path
     IN /\ fs' = [fs EXCEPT ![p] = File(WriteAt(@.data, Downloaded(t), chunk))]
        /\ total_downloaded_bytes' = add_bytes(total_downloaded_bytes, Len(chunk))
        /\ wrote' = [wrote EXCEPT ![t] = @ + Len(chunk)]
  /\ got' = [got EXCEPT ![t] = @ + 1]
  /\ fs_ops' = [fs_ops EXCEPT ![t] = @ + 1]
  /\ emitted' = [emitted EXCEPT ![t] = Append(@, "Downloading")]
  /\ last_progress' =
       Some(ProgressSnapshot(completed_files, total_downloaded_bytes'))
  /\ UNCHANGED final_count
  /\ UNCHANGED << tasks, max_concurrent, limit, permits, completed_files, pc,
                  phase, complete, launch, run, requests, incs, skipped_size,
                  read_valid, read_invalid, prev, nonDL >>

\* downloader.rs:212-214  write_all fails: Err("Write error")
StreamWriteError(t) ==
  /\ phase = "running"
  /\ pc[t] = "stream"
  /\ got[t] < Len(ServerBody(tasks[t].url))
  /\ pc' = [pc EXCEPT ![t] = "ErrWrite"]
  /\ permits' = release_permit(permits)
  /\ UNCHANGED << tasks, max_concurrent, limit, completed_files,
                  total_downloaded_bytes, fs, got, phase, complete, launch,
                  run, requests, incs, emitted, wrote, skipped_size, fs_ops,
                  read_valid, read_invalid, prev, nonDL, progressVars >>

\* downloader.rs:227  resp.chunk() fails mid-stream: Err("Download error")
StreamError(t) ==
  /\ phase = "running"
  /\ pc[t] = "stream"
  /\ pc' = [pc EXCEPT ![t] = "ErrDownload"]
  /\ permits' = release_permit(permits)
  /\ UNCHANGED << tasks, max_concurrent, limit, completed_files,
                  total_downloaded_bytes, fs, got, phase, complete, launch,
                  run, requests, incs, emitted, wrote, skipped_size, fs_ops,
                  read_valid, read_invalid, prev, nonDL, progressVars >>

\* downloader.rs:226,234-242  Ok(None): inc_completed, the Finished event,
\* return Ok; nothing is read back or verified
Finish(t) ==
  /\ phase = "running"
  /\ pc[t] = "stream"
  /\ got[t] = Len(ServerBody(tasks[t].url))
  /\ completed_files' = inc_completed(completed_files)
  /\ incs' = [incs EXCEPT ![t] = @ + 1]
  /\ emitted' = [emitted EXCEPT ![t] = Append(@, "Finished")]
  /\ last_progress' =
       Some(ProgressSnapshot(completed_files', total_downloaded_bytes))
  /\ final_count' = [final_count EXCEPT ![t] = Some(completed_files')]
  /\ pc' = [pc EXCEPT ![t] = "Finished"]
  /\ permits' = release_permit(permits)
  /\ UNCHANGED << tasks, max_concurrent, limit, total_downloaded_bytes, fs,
                  got, phase, complete, launch, run, requests, wrote,
                  skipped_size, fs_ops, read_valid, read_invalid, prev, nonDL >>

\* downloader.rs:247-253  collect() ends when every future has returned;
\* the results are dropped, download-complete is emitted, Ok(()) is returned
Return ==
  /\ phase = "running"
  /\ \A t \in Tasks : pc[t] \in TerminalStatus
  /\ phase' = "returned"
  /\ complete' = TRUE
  /\ UNCHANGED << tasks, max_concurrent, limit, permits, completed_files,
                  total_downloaded_bytes, fs, pc, got, launch, run, requests,
                  incs, emitted, wrote, skipped_size, fs_ops, read_valid,
                  read_invalid, prev, nonDL, progressVars >>

\* download_files' result: Ok(()) on every path (downloader.rs:253)
download_result == "Ok"

\* main.rs:341-348: only an Err of download_files would end start_game here.
\* main.rs:350-369, 546-548: the extraction or the spawn fails: no process.
LaunchFailed ==
  /\ phase = "returned"
  /\ launch = "none"
  /\ download_result = "Ok"
  /\ launch' = "failed"
  /\ UNCHANGED << tasks, max_concurrent, limit, permits, completed_files,
                  total_downloaded_bytes, fs, pc, got, phase, complete, run,
                  requests, incs, emitted, wrote, skipped_size, fs_ops,
                  read_valid, read_invalid, prev, nonDL, progressVars >>

\* main.rs:341-348, 546-550: command.spawn() succeeds
LaunchSpawned ==
  /\ phase = "returned"
  /\ launch = "none"
  /\ download_result = "Ok"
  /\ launch' = "spawned"
  /\ UNCHANGED << tasks, max_concurrent, limit, permits, completed_files,
                  total_downloaded_bytes, fs, pc, got, phase, complete, run,
                  requests, incs, emitted, wrote, skipped_size, fs_ops,
                  read_valid, read_invalid, prev, nonDL, progressVars >>

TaskStep(t) ==
  \/ Pull(t)
  \/ Acquire(t)
  \/ Read(t)
  \/ Skip(t)
  \/ Send(t)
  \/ StreamChunk(t)
  \/ StreamWriteError(t)
  \/ StreamError(t)
  \/ Finish(t)

DLNext ==
  \/ \E t \in Tasks : TaskStep(t)
  \/ Return
  \/ LaunchFailed
  \/ LaunchSpawned

\* main.rs:341-347  a later launch hands the same task list to
\* download_files again: a new semaphore and new counters (downloader.rs:
\* 143-150) over the file system the first run left
Rerun ==
  /\ phase = "returned"
  /\ run = 1
  /\ run' = 2
  /\ prev' = [t \in Tasks |-> read_invalid[t] /\ pc[t] = "Finished"]
  /\ permits' = limit
  /\ completed_files' = 0
  /\ total_downloaded_bytes' = 0
  /\ pc' = [t \in Tasks |-> "queued"]
  /\ got' = [t \in Tasks |-> 0]
  /\ phase' = "running"
  /\ complete' = FALSE
  /\ requests' = [t \in Tasks |-> 0]
  /\ incs' = [t \in Tasks |-> 0]
  /\ emitted' = [t \in Tasks |-> <<>>]
  /\ wrote' = [t \in Tasks |-> 0]
  /\ skipped_size' = [t \in Tasks |-> 0]
  /\ fs_ops' = [t \in Tasks |-> 0]
  /\ read_valid' = [t \in Tasks |-> FALSE]
  /\ read_invalid' = [t \in Tasks |-> FALSE]
  /\ last_progress' = None
  /\ final_count' = [t \in Tasks |-> None]
  /\ UNCHANGED << tasks, max_concurrent, limit, fs, launch, nonDL >>

(***************************************************************************)
(*              PART 2 - VERSION DESCRIPTORS: MERGE AND RESOLVE            *)
(***************************************************************************)

\* a serde_json::Value of an argument category: an array with its entries,
\* or any other JSON value
JArray(items) == [kind |-> "array", items |-> items]

JOther == [kind |-> "other", items |-> <<>>]

\* a plausible slip: the two sides of the concatenation are swapped
merge_json_arrays_child_first(parent, child) ==
  IF ~IsSome(parent) /\ ~IsSome(child) THEN None
  ELSE IF ~IsSome(child) THEN parent
  ELSE IF ~IsSome(parent) THEN child
  ELSE IF Unwrap(parent).kind = "array" /\ Unwrap(child).kind = "array"
       THEN Some(JArray(Unwrap(child).items \o Unwrap(parent).items))
       ELSE child

\* version_merge.rs:75-95
merge_json_arrays(parent, child) ==
  IF ~IsSome(parent) /\ ~IsSome(child) THEN None
  ELSE IF ~IsSome(child) THEN parent
  ELSE IF ~IsSome(parent) THEN child
  ELSE IF Unwrap(parent).kind = "array" /\ Unwrap(child).kind = "array"
       THEN Some(JArray(Unwrap(parent).items \o Unwrap(child).items))
       ELSE child

\* version_merge.rs:60-70
merge_arguments(child, parent) ==
  IF ~IsSome(child) /\ ~IsSome(parent) THEN None
  ELSE IF ~IsSome(parent) THEN child
  ELSE IF ~IsSome(child) THEN parent
  ELSE Some([game |-> merge_json_arrays(Unwrap(parent).game, Unwrap(child).game),
             jvm |-> merge_json_arrays(Unwrap(parent).jvm, Unwrap(child).jvm)])

\* a plausible slip: the parent's libraries are put first
merge_versions_parent_first(child, parent) ==
  [id |-> child.id,
   downloads |-> OrElse(child.downloads, parent.downloads),
   asset_index |-> OrElse(child.asset_index, parent.asset_index),
   libraries |-> parent.libraries \o child.libraries,
   main_class |-> child.main_class,
   minecraft_arguments |->
     OrElse(child.minecraft_arguments, parent.minecraft_arguments),
   arguments |-> merge_arguments(child.arguments, parent.arguments),
   java_version |-> OrElse(child.java_version, parent.java_version),
   inherits_from |-> None,
   assets |-> OrElse(child.assets, parent.assets),
   version_type |-> OrElse(child.version_type, parent.version_type)]

\* version_merge.rs:25-54
merge_versions_keep_chain(child, parent) ==
  [id |-> child.id,
   downloads |-> OrElse(child.downloads, parent.downloads),
   asset_index |-> OrElse(child.asset_index, parent.asset_index),
   libraries |-> child.libraries \o parent.libraries,
   main_class |-> child.main_class,
   minecraft_arguments |->
     OrElse(child.minecraft_arguments, parent.minecraft_arguments),
   arguments |-> merge_arguments(child.arguments, parent.arguments),
   java_version |-> OrElse(child.java_version, parent.java_version),
   inherits_from |-> parent.inherits_from,
   assets |-> OrElse(child.assets, parent.assets),
   version_type |-> OrElse(child.version_type, parent.version_type)]

merge_versions(child, parent) ==
  [id |-> child.id,
   downloads |-> OrElse(child.downloads, parent.downloads),
   asset_index |-> OrElse(child.asset_index, parent.asset_index),
   libraries |-> child.libraries \o parent.libraries,
   main_class |-> child.main_class,
   minecraft_arguments |->
     OrElse(child.minecraft_arguments, parent.minecraft_arguments),
   arguments |-> merge_arguments(child.arguments, parent.arguments),
   java_version |-> OrElse(child.java_version, parent.java_version),
   inherits_from |-> None,
   assets |-> OrElse(child.assets, parent.assets),
   version_type |-> OrElse(child.version_type, parent.version_type)]

(***************************************************************************)
(* merge_versions on enumerated descriptors.  The values of one side carry *)
(* that side's name, so the result shows where each field came from.       *)
(***************************************************************************)
ValueChoices(side) ==
  { None, Some(JArray(<<>>)), Some(JArray(<< <<side, 1>>, <<side, 2>> >>)),
    Some(JOther) }

ArgumentsChoices(side) ==
  {None} \cup
  { Some([game |-> g, jvm |-> j]) :
      g \in ValueChoices(side),
      j \in {None, Some(JArray(<< <<side, "jvm">> >>))} }

LibraryChoices(side) ==
  { <<>>, << <<side, "lib", 1>>, <<side, "lib", 2>> >>,
    << <<"shared", "lib", 1>> >> }

\* which optional fields a descriptor defines: none, all, or one half
FieldPatterns ==
  { {},
    {"downloads", "java_version", "assets"},
    {"asset_index", "minecraft_arguments", "version_type"},
    {"downloads", "java_version", "assets",
     "asset_index", "minecraft_arguments", "version_type"} }

Field(side, name, pattern) ==
  IF name \in pattern THEN Some(<<side, name>>) ELSE None

\* game_version.rs:6-29  GameVersion
GameVersionChoices(side, parents) ==
  { [id |-> <<side, "id">>,
     downloads |-> Field(side, "downloads", pat),
     asset_index |-> Field(side, "asset_index", pat),
     libraries |-> libs,
     main_class |-> <<side, "main">>,
     minecraft_arguments |-> Field(side, "minecraft_arguments", pat),
     arguments |-> arguments,
     java_version |-> Field(side, "java_version", pat),
     inherits_from |-> inh,
     assets |-> Field(side, "assets", pat),
     version_type |-> Field(side, "version_type", pat)] :
      pat \in FieldPatterns,
      libs \in LibraryChoices(side),
      arguments \in ArgumentsChoices(side),
      inh \in parents }

MergeIdle ==
  /\ m_child = None
  /\ m_parent = None
  /\ m_result = None

\* the child names its parent (merge_versions is called for a descriptor
\* with inherits_from); the parent may itself name a parent
MergeInit ==
  /\ m_child \in GameVersionChoices("child", {Some(<<"parent", "id">>)})
  /\ m_parent \in GameVersionChoices("parent", {None, Some(<<"grand", "id">>)})
  /\ m_result = None

\* version_merge.rs:25  merge_versions(child, parent)
ApplyMerge ==
  /\ m_result = None
  /\ m_result' = Some(merge_versions(m_child, m_parent))
  /\ UNCHANGED << m_child, m_parent, nonMerge >>

(***************************************************************************)
(* load_version and resolve_inheritance over a store of three descriptors. *)
(* The descriptor of an id carries the id in its values; which parent it   *)
(* names, which optional fields it defines and where it is kept are        *)
(* inputs.  Any parent pointer is allowed, cycles included.                *)
(***************************************************************************)
Ids == {"v1", "v2", "v3"}

DefinesChoices == { {}, {"asset_index"}, {"downloads", "asset_index"} }

\* where the descriptor of an id is kept: in the local versions directory,
\* in the remote manifest, in both, or nowhere
StoredChoices == {"local", "remote", "both", "missing"}

local_found_never(s) == FALSE

\* manifest.rs:47-63  load_local_version answers Ok when the file is there
local_found(s) == s \in {"local", "both"}

\* manifest.rs:72-91  fetch_vanilla_version answers Ok when the manifest
\* lists the id
remote_found(s) == s \in {"remote", "both"}

\* game_version.rs:6-29  the GameVersion read for an id
Descriptor(i) ==
  [id |-> i,
   downloads |-> Field(i, "downloads", defines[i]),
   asset_index |-> Field(i, "asset_index", defines[i]),
   libraries |-> << <<i, "lib">> >>,
   main_class |-> <<i, "main">>,
   minecraft_arguments |-> None,
   arguments |-> None,
   java_version |-> None,
   inherits_from |-> inherits[i],
   assets |-> None,
   version_type |-> None]

\* manifest.rs:109-115, 126; version_merge.rs:127, 132: the first load is
\* the current version, a later one is merged into it as the parent
Absorb(current, loaded) ==
  IF current = None THEN Some(loaded)
  ELSE Some(merge_versions(Unwrap(current), loaded))

\* main.rs:138-141  the version whose client jar is used
minecraft_version(details, version_id) ==
  IF IsSome(details.inherits_from)
  THEN Unwrap(details.inherits_from)
  ELSE version_id

\* main.rs:154-156  versions/<minecraft_version>/<minecraft_version>.jar
client_path(mc_version) ==
  << << "versions" >>, << mc_version >>, << mc_version, ".jar" >> >>

ResolveInit ==
  /\ inherits \in [Ids -> {None} \cup {Some(i) : i \in Ids}]
  /\ defines \in [Ids -> DefinesChoices]
  /\ stored \in [Ids -> StoredChoices]
  /\ lv_op \in {"load_version", "resolve_inheritance"}
  /\ lv_op = "resolve_inheritance" => stored["v1"] = "local"
  /\ lv_want = Some("v1")
  /\ lv_pc = IF lv_op = "load_version" THEN "local" ELSE "check"
  /\ lv_version = IF lv_op = "load_version" THEN None ELSE Some(Descriptor("v1"))
  /\ lv_log = <<>>

\* manifest.rs:47-63, 109-110, 120-121  load_local_version of the wanted id
LoadLocal ==
  /\ lv_op = "load_version"
  /\ lv_pc = "local"
  /\ lv_log' = Append(lv_log, <<"local", Unwrap(lv_want)>>)
  /\ IF local_found(stored[Unwrap(lv_want)])
     THEN /\ lv_version' = Absorb(lv_version, Descriptor(Unwrap(lv_want)))
          /\ lv_pc' = "check"
     ELSE /\ lv_pc' = "remote"
          /\ UNCHANGED lv_version
  /\ UNCHANGED << inherits, defines, stored, lv_op, lv_want, nonResolve >>

\* manifest.rs:72-91, 111-114, 122  fetch_vanilla_version of the wanted id;
\* its error ends load_version
FetchRemote ==
  /\ lv_op = "load_version"
  /\ lv_pc = "remote"
  /\ lv_log' = Append(lv_log, <<"remote", Unwrap(lv_want)>>)
  /\ IF remote_found(stored[Unwrap(lv_want)])
     THEN /\ lv_version' = Absorb(lv_version, Descriptor(Unwrap(lv_want)))
          /\ lv_pc' = "check"
     ELSE /\ lv_pc' = "error"
          /\ UNCHANGED lv_version
  /\ UNCHANGED << inherits, defines, stored, lv_op, lv_want, nonResolve >>

\* version_merge.rs:131-132  version_loader(parent_id).await?, then the merge
LoaderCall ==
  /\ lv_op = "resolve_inheritance"
  /\ lv_pc = "loader"
  /\ lv_log' = Append(lv_log, <<"loader", Unwrap(lv_want)>>)
  /\ IF stored[Unwrap(lv_want)] # "missing"
     THEN /\ lv_version' = Absorb(lv_version, Descriptor(Unwrap(lv_want)))
          /\ lv_pc' = "check"
     ELSE /\ lv_pc' = "error"
          /\ UNCHANGED lv_version
  /\ UNCHANGED << inherits, defines, stored, lv_op, lv_want, nonResolve >>

\* manifest.rs:118, 129; version_merge.rs:130, 135
\* while let Some(parent_id) = version.inherits_from.clone() ... Ok(version)
CheckInherits ==
  /\ lv_pc = "check"
  /\ IF IsSome(Unwrap(lv_version).inherits_from)
     THEN /\ lv_want' = Unwrap(lv_version).inherits_from
          /\ lv_pc' = IF lv_op = "load_version" THEN "local" ELSE "loader"
     ELSE /\ lv_pc' = "done"
          /\ UNCHANGED lv_want
  /\ UNCHANGED << inherits, defines, stored, lv_op, lv_version, lv_log,
                  nonResolve >>

ResolveNext ==
  \/ LoadLocal
  \/ FetchRemote
  \/ LoaderCall
  \/ CheckInherits

(***************************************************************************)
(* PART 3.  Rule evaluation (rules.rs).  A rule is its action, its         *)
(* optional OS condition (name, version, arch, each optional) and its      *)
(* optional feature condition.                                             *)
(***************************************************************************)
MaxRules == 2

\* env::consts::OS of the builds the launcher has, and of one other
Platforms == {"linux", "macos", "windows", "freebsd"}

\* the "name" of an OS condition: the spellings rule_matches knows and one
\* it does not
OsNames == {"osx", "macos", "linux", "windows", "solaris"}

\* game_version.rs:73-77  OsRule: a condition gives a version or an arch in
\* addition to a name, or neither
OsRule ==
  [name : {None} \cup {Some(n) : n \in OsNames},
   version : {None},
   arch : {None, Some("x86")}]
  \cup
  [name : {None} \cup {Some(n) : n \in OsNames},
   version : {Some("^10\\.")},
   arch : {None}]

\* game_version.rs:66-70  Rule
Rule ==
  [action : {"allow", "disallow"},
   os : {None} \cup {Some(o) : o \in OsRule},
   features : {None, Some("is_demo_user")}]

RECURSIVE SeqsUpTo(_, _)
SeqsUpTo(S, n) ==
  IF n = 0 THEN { <<>> }
  ELSE LET shorter == SeqsUpTo(S, n - 1)
       IN shorter \cup { Append(q, x) : q \in shorter, x \in S }

RuleListChoices == {None} \cup { Some(q) : q \in SeqsUpTo(Rule, MaxRules) }

rule_matches_ignoring_os(rule, os) == ~IsSome(rule.features)

rule_matches_ignoring_features(rule, os) ==
  IF rule.os = None THEN TRUE
  ELSE IF IsSome(Unwrap(rule.os).name)
       THEN LET os_name == Unwrap(Unwrap(rule.os).name)
            IN IF os_name \in {"osx", "macos"} THEN os = "macos"
               ELSE IF os_name = "linux" THEN os = "linux"
               ELSE IF os_name = "windows" THEN os = "windows"
               ELSE FALSE
       ELSE TRUE

\* rules.rs:49-75  rule_matches, with env::consts::OS as `os`
rule_matches(rule, os) ==
  IF IsSome(rule.features) THEN FALSE
  ELSE IF rule.os = None THEN TRUE
  ELSE IF IsSome(Unwrap(rule.os).name)
       THEN LET os_name == Unwrap(Unwrap(rule.os).name)
            IN IF os_name \in {"osx", "macos"} THEN os = "macos"
               ELSE IF os_name = "linux" THEN os = "linux"
               ELSE IF os_name = "windows" THEN os = "windows"
               ELSE FALSE
       ELSE TRUE

\* a loop that returns at the first rule that matches
RECURSIVE apply_rules_first_match(_, _, _)
apply_rules_first_match(list, os, result) ==
  IF list = <<>> THEN result
  ELSE IF rule_matches(Head(list), os) THEN Head(list).action = "allow"
  ELSE apply_rules_first_match(Tail(list), os, result)

\* rules.rs:39-46  the loop over the rules, from the running value `result`
RECURSIVE apply_rules(_, _, _)
apply_rules(list, os, result) ==
  IF list = <<>> THEN result
  ELSE apply_rules(Tail(list), os,
                   IF rule_matches(Head(list), os)
                   THEN Head(list).action = "allow"
                   ELSE result)

\* rules.rs:4-47  is_library_allowed
is_library_allowed(rs, os) ==
  IF rs = None THEN TRUE
  ELSE IF Unwrap(rs) = <<>> THEN TRUE
  ELSE apply_rules(Unwrap(rs), os, FALSE)

RulesIdle ==
  /\ rules = None
  /\ consts_OS = "idle"
  /\ allowed = None

RulesInit ==
  /\ rules \in RuleListChoices
  /\ consts_OS \in Platforms
  /\ allowed = None

\* one call of is_library_allowed(&rules), for a library (main.rs:170-172)
\* or for a rule-gated argument entry (main.rs:473-481, 631-639)
EvaluateRules ==
  /\ consts_OS \in Platforms
  /\ allowed = None
  /\ allowed' = Some(is_library_allowed(rules, consts_OS))
  /\ UNCHANGED << rules, consts_OS, nonRules >>

(***************************************************************************)
(* PART 4.  The credential chain (auth.rs) inside one call of              *)
(* complete_microsoft_login (main.rs) or of refresh_full_auth.  A server   *)
(* answers a request with a transport failure or with a status and a body; *)
(* the value a hop's server issues is tagged with the hop and the input it *)
(* was asked with.                                                         *)
(***************************************************************************)
Hops == << "token", "xbox_live", "xsts", "minecraft", "profile" >>

\* the bodies the token endpoint can answer with
TokenBodies == {"token_with_refresh", "token_without_refresh"}

PollErrors == {"authorization_pending", "expired_token", "access_denied"}

Bodies(hop) ==
  IF hop = "token" THEN TokenBodies \cup PollErrors \cup {"garbage"}
  ELSE IF hop = "xbox_live" THEN {"valid", "no_uhs", "garbage"}
  ELSE {"valid", "garbage"}

\* send() or text() failed: there is no response (status 0 stands for none)
TransportFailure == [status |-> 0, body |-> "none"]

Responses(hop) ==
  {TransportFailure} \cup [status : {200, 400}, body : Bodies(hop)]

Ok(v) == << "Ok", v >>

Err(e) == << "Err", e >>

IsOk(r) == r[1] = "Ok"

\* auth.rs:90-94  the TokenResponse a body of the token endpoint parses to
TokenResponse(body, input) ==
  [access_token |-> << "access", input >>,
   refresh_token |-> IF body = "token_with_refresh"
                     THEN Some(<< "refresh", input >>) ELSE None,
   expires_in |-> 3600]

poll_error_opaque(error) == "Unknown response"

\* auth.rs:279-284  Err(err_resp.error) of exchange_code_for_token
poll_error(error) == error

\* auth.rs:251-288  exchange_code_for_token and auth.rs:104-136
\* refresh_microsoft_token: the body is parsed whatever the status is
token_request(op, resp, input) ==
  IF resp = TransportFailure THEN Err("transport")
  ELSE IF resp.body \in TokenBodies THEN Ok(TokenResponse(resp.body, input))
  ELSE IF resp.body \in PollErrors
       THEN IF op = "complete_microsoft_login"
            THEN Err(poll_error(resp.body))
            ELSE Err(<< "Token refresh failed", resp.body >>)
  ELSE Err("Unknown response")

\* auth.rs:291-429  method_xbox_live, method_xsts, login_minecraft and
\* fetch_profile: the status is checked, then the body is parsed
checked_request(hop, resp, input) ==
  IF resp = TransportFailure THEN Err("transport")
  ELSE IF resp.status # 200 THEN Err(<< hop, "failed", resp.status >>)
  ELSE IF resp.body = "garbage" THEN Err("decode")
  ELSE IF resp.body = "no_uhs" THEN Err("Failed to find UHS code")
  ELSE IF hop = "xbox_live"
       THEN Ok([token |-> << "xbl", input >>, uhs |-> << "uhs", input >>])
  ELSE IF hop = "profile"
       THEN Ok([id |-> "u-alex", name |-> "alex"])
  ELSE Ok(<< hop, input >>)

after_failure_retry(hop) == hop

\* the `?` after each hop: the error ends the operation
after_failure(hop) == "error"

\* the step after a hop that succeeded
after_success(hop) ==
  IF hop = "token" THEN "xbox_live"
  ELSE IF hop = "xbox_live" THEN "xsts"
  ELSE IF hop = "xsts" THEN "minecraft"
  ELSE IF hop = "minecraft" THEN "profile"
  ELSE "save"

\* main.rs:773, 776, 779, 782 and auth.rs:159, 162, 165, 168: what a hop
\* is called with
HopInput(hop) ==
  IF hop = "xbox_live" THEN Unwrap(token_resp).access_token
  ELSE IF hop = "xsts" THEN auth_vals["xbox_live"].token
  ELSE IF hop = "minecraft"
       THEN << auth_vals["xsts"], auth_vals["xbox_live"].uhs >>
  ELSE auth_vals["minecraft"]

\* main.rs:785-797, auth.rs:171-181  the MicrosoftAccount built at the end
NewAccount ==
  [type |-> "Microsoft",
   username |-> auth_vals["profile"].name,
   uuid |-> auth_vals["profile"].id,
   access_token |-> auth_vals["minecraft"],
   refresh_token |-> Unwrap(token_resp).refresh_token,
   expires_at |-> auth_now + Unwrap(token_resp).expires_in]

OfflineAccount == [type |-> "Offline", username |-> "steve", uuid |-> "u-steve"]

OldMicrosoftAccount ==
  [type |-> "Microsoft", username |-> "alex", uuid |-> "u-alex",
   access_token |-> "old-mc", refresh_token |-> Some("old-refresh"),
   expires_at |-> 4000]

\* account_storage.rs:52-66  StoredAccount::from_account
from_account(acc, ms_refresh_token) ==
  IF acc.type = "Offline" THEN acc
  ELSE [type |-> "Microsoft",
        username |-> acc.username,
        uuid |-> acc.uuid,
        access_token |-> acc.access_token,
        refresh_token |-> acc.refresh_token,
        ms_refresh_token |-> ms_refresh_token,
        expires_at |-> acc.expires_at]

retain_all(accounts, id) == accounts

\* Vec::retain
RECURSIVE retain_other(_, _)
retain_other(accounts, id) ==
  IF accounts = <<>> THEN <<>>
  ELSE IF Head(accounts).uuid = id THEN retain_other(Tail(accounts), id)
  ELSE << Head(accounts) >> \o retain_other(Tail(accounts), id)

\* account_storage.rs:96-111  add_or_update_account, the store it saves
add_or_update_account(st, acc, ms_refresh_token) ==
  [accounts |-> Append(retain_other(st.accounts, acc.uuid),
                       from_account(acc, ms_refresh_token)),
   active_account_id |-> Some(acc.uuid)]

EmptyStore == [accounts |-> <<>>, active_account_id |-> None]

\* account_storage.rs:122-139  get_active_account: the record the active
\* pointer designates and its Microsoft refresh token
get_active_account(st) ==
  IF IsSome(st.active_account_id)
  THEN LET found == SelectSeq(st.accounts,
                              LAMBDA a : a.uuid = Unwrap(st.active_account_id))
       IN  IF Len(found) = 0 THEN None
           ELSE Some(<< Head(found),
                        IF Head(found).type = "Microsoft"
                        THEN Head(found).ms_refresh_token ELSE None >>)
  ELSE None

\* main.rs:830-834  the refresh token refresh_account takes from the store
stored_ms_refresh(st) ==
  LET found == get_active_account(st) IN
    IF ~IsSome(found) THEN Err("No active account found")
    ELSE IF ~IsSome(Unwrap(found)[2]) THEN Err("No refresh token available")
    ELSE Ok(Unwrap(Unwrap(found)[2]))

\* the session after startup (main.rs:1216-1231): the store and what was
\* restored from it
SessionChoices ==
  { [active_account |-> None, ms_refresh_state |-> None, store |-> EmptyStore],
    [active_account |-> Some(OfflineAccount), ms_refresh_state |-> None,
     store |-> add_or_update_account(EmptyStore, OfflineAccount, None)],
    [active_account |-> Some(OldMicrosoftAccount),
     ms_refresh_state |-> Some("old-ms-refresh"),
     store |-> add_or_update_account(EmptyStore, OldMicrosoftAccount,
                                     Some("old-ms-refresh"))] }

Session ==
  [active_account |-> active_account,
   ms_refresh_state |-> ms_refresh_state,
   store |-> store]

AuthIdle ==
  /\ auth_op = "idle"
  /\ auth_pc = "idle"
  /\ auth_input = None
  /\ auth_now = 0
  /\ token_resp = None
  /\ auth_vals = <<>>
  /\ auth_result = None
  /\ active_account = None
  /\ ms_refresh_state = None
  /\ store = EmptyStore
  /\ auth_calls = <<>>
  /\ auth_before = None

AuthInit ==
  /\ auth_op \in {"complete_microsoft_login", "refresh_full_auth"}
  /\ auth_pc = "token"
  /\ auth_input = IF auth_op = "complete_microsoft_login"
                  THEN "device-code" ELSE "old-ms-refresh"
  /\ auth_now \in {1000, 5000}
  /\ token_resp = None
  /\ auth_vals = [h \in {} |-> None]
  /\ auth_result = None
  /\ \E s \in SessionChoices :
       /\ active_account = s.active_account
       /\ ms_refresh_state = s.ms_refresh_state
       /\ store = s.store
       /\ auth_before = s
  /\ auth_calls = <<>>

Call(hop, input, resp, outcome) ==
  [hop |-> hop, input |-> input, status |-> resp.status, body |-> resp.body,
   outcome |-> outcome]

\* main.rs:769-773  exchange_code_for_token(&device_code).await?, then the
\* refresh token is put into MsRefreshTokenState;
\* auth.rs:156  refresh_microsoft_token(ms_refresh_token).await?
TokenHop ==
  /\ auth_pc = "token"
  /\ auth_op = "refresh_full_auth" => stored_ms_refresh(store) = Ok(auth_input)
  /\ \E resp \in Responses("token") :
       LET outcome == token_request(auth_op, resp, auth_input) IN
         /\ auth_calls' =
              Append(auth_calls, Call("token", auth_input, resp, outcome))
         /\ IF IsOk(outcome)
            THEN /\ token_resp' = Some(outcome[2])
                 /\ auth_pc' = after_success("token")
                 /\ ms_refresh_state' =
                      IF auth_op = "complete_microsoft_login"
                      THEN outcome[2].refresh_token
                      ELSE ms_refresh_state
                 /\ UNCHANGED auth_result
            ELSE /\ auth_pc' = after_failure("token")
                 /\ auth_result' = outcome
                 /\ UNCHANGED << token_resp, ms_refresh_state >>
  /\ UNCHANGED << auth_op, auth_input, auth_now, auth_vals, active_account,
                  store, auth_before, nonAuth >>

\* main.rs:776-785, auth.rs:159-168  one of the four later hops, `?` included
LaterHop(hop) ==
  /\ hop # "token"
  /\ auth_pc = hop
  /\ \E resp \in Responses(hop) :
       LET outcome == checked_request(hop, resp, HopInput(hop)) IN
         /\ auth_calls' =
              Append(auth_calls, Call(hop, HopInput(hop), resp, outcome))
         /\ IF IsOk(outcome)
            THEN /\ auth_vals' =
                      [h \in DOMAIN auth_vals \cup {hop} |->
                         IF h = hop THEN outcome[2] ELSE auth_vals[h]]
                 /\ auth_pc' = after_success(hop)
                 /\ UNCHANGED auth_result
            ELSE /\ auth_pc' = after_failure(hop)
                 /\ auth_result' = outcome
                 /\ UNCHANGED auth_vals
  /\ UNCHANGED << auth_op, auth_input, auth_now, token_resp, active_account,
                  ms_refresh_state, store, auth_before, nonAuth >>

\* main.rs:787-814  the account is built, put into AccountState and saved;
\* the save can fail after the state was set
SaveLogin ==
  /\ auth_op = "complete_microsoft_login"
  /\ auth_pc = "save"
  /\ active_account' = Some(NewAccount)
  /\ \E saved \in BOOLEAN :
       IF saved
       THEN /\ store' = add_or_update_account(store, NewAccount,
                                              Unwrap(token_resp).refresh_token)
            /\ auth_result' = Ok(NewAccount)
            /\ auth_pc' = "done"
       ELSE /\ auth_result' = Err("storage")
            /\ auth_pc' = "error"
            /\ UNCHANGED store
  /\ UNCHANGED << auth_op, auth_input, auth_now, token_resp, auth_vals,
                  ms_refresh_state, auth_calls, auth_before, nonAuth >>

new_ms_refresh_old(refresh_token, ms_refresh_token) == ms_refresh_token

\* auth.rs:184-186  token_resp.refresh_token.unwrap_or_else(|| old)
new_ms_refresh(refresh_token, ms_refresh_token) ==
  IF IsSome(refresh_token) THEN Unwrap(refresh_token) ELSE ms_refresh_token

\* auth.rs:171-188  refresh_full_auth returns the account and the refresh
\* token to store: the new one, or the old one when none was issued
ReturnRefresh ==
  /\ auth_op = "refresh_full_auth"
  /\ auth_pc = "save"
  /\ auth_result' =
       Ok(<< NewAccount,
             new_ms_refresh(Unwrap(token_resp).refresh_token, auth_input) >>)
  /\ auth_pc' = "done"
  /\ UNCHANGED << auth_op, auth_input, auth_now, token_resp, auth_vals,
                  active_account, ms_refresh_state, store, auth_calls,
                  auth_before, nonAuth >>

\* main.rs:830-834  refresh_account without a stored refresh token: the
\* error is returned before any request is made
RefreshRejected ==
  /\ auth_op = "refresh_full_auth"
  /\ auth_pc = "token"
  /\ ~IsOk(stored_ms_refresh(store))
  /\ auth_result' = stored_ms_refresh(store)
  /\ auth_pc' = "error"
  /\ UNCHANGED << auth_op, auth_input, auth_now, token_resp, auth_vals,
                  active_account, ms_refresh_state, store, auth_calls,
                  auth_before, nonAuth >>

\* main.rs:837-847  refresh_account after refresh_full_auth returned Ok: the
\* account and the refresh token are put into the session, then the record
\* is saved; the save can fail after the session was set
RefreshAccountUpdate ==
  /\ auth_op = "refresh_full_auth"
  /\ auth_pc = "done"
  /\ LET new_account == auth_result[2][1]
         new_token == auth_result[2][2]
     IN  /\ active_account' = Some(new_account)
         /\ ms_refresh_state' = Some(new_token)
         /\ \E saved \in BOOLEAN :
              IF saved
              THEN /\ store' = add_or_update_account(store, new_account,
                                                     Some(new_token))
                   /\ auth_result' = Ok(new_account)
                   /\ auth_pc' = "updated"
              ELSE /\ auth_result' = Err("storage")
                   /\ auth_pc' = "error"
                   /\ UNCHANGED store
  /\ UNCHANGED << auth_op, auth_input, auth_now, token_resp, auth_vals,
                  auth_calls, auth_before, nonAuth >>

AuthNext ==
  \/ TokenHop
  \/ \E k \in 2..Len(Hops) : LaterHop(Hops[k])
  \/ SaveLogin
  \/ ReturnRefresh
  \/ RefreshRejected
  \/ RefreshAccountUpdate

(***************************************************************************)
(* PART 5.  is_token_expired (auth.rs), on timestamps of a window around   *)
(* the clock; inside the window the i64 subtraction is exact.              *)
(***************************************************************************)
MaxSeconds == 1000

ExpiryMargin == 300

is_token_expired_inclusive(at, secs) == at - secs <= ExpiryMargin

\* auth.rs:139-147  is_token_expired, with the clock read at line 140
is_token_expired(at, secs) == at - secs < ExpiryMargin

ExpiryIdle ==
  /\ expires_at = 0
  /\ now = 0
  /\ expired = None

ExpiryInit ==
  /\ expires_at \in (0 - MaxSeconds)..MaxSeconds
  /\ now \in {MaxSeconds \div 4, MaxSeconds \div 2}
  /\ expired = None

\* one call of is_token_expired(expires_at)
CheckExpired ==
  /\ expired = None
  /\ expired' = Some(is_token_expired(expires_at, now))
  /\ UNCHANGED << expires_at, now, nonExpiry >>

(***************************************************************************)
(* PART 6.  The argument vector of start_game (main.rs).  A string is a    *)
(* sequence of pieces: literal text, a ${name} placeholder, a substituted  *)
(* value, or white space.                                                  *)
(***************************************************************************)
MaxTemplate == 2

Lit(text) == << "lit", text >>

Ph(name) == << "ph", name >>

Val(value) == << "val", value >>

Ws == << "ws", " " >>

JString(str) == [kind |-> "string", str |-> str]

JNumber == [kind |-> "number"]

\* a template entry {"rules": ..., "value": ...}: the rules key is absent,
\* does not parse as Vec<Rule>, or is a rule list; the value key is optional
JObject(rules_val, value) ==
  [kind |-> "object", rules |-> rules_val, value |-> value]

NoRules == [key |-> "absent", list |-> <<>>]

InvalidRules == [key |-> "invalid", list |-> <<>>]

RuleList1(rule) == [key |-> "list", list |-> << rule >>]

\* str::replace for every (key, val) of `replacements`
replace_all(str, replacements) ==
  [i \in 1..Len(str) |->
     IF str[i][1] = "ph" /\ str[i][2] \in DOMAIN replacements
     THEN Val(replacements[str[i][2]])
     ELSE str[i]]

\* main.rs:50-63  has_unresolved_placeholder: the string has a "${"
has_unresolved_placeholder(str) ==
  \E i \in 1..Len(str) : str[i][1] = "ph"

is_memory_arg_xmx_only(str) ==
  str # <<>> /\ str[1] = Lit("-Xmx")

\* arg.starts_with("-Xmx") || arg.starts_with("-Xms")
is_memory_arg(str) ==
  str # <<>> /\ str[1] \in {Lit("-Xmx"), Lit("-Xms")}

\* str::split_whitespace
RECURSIVE split_whitespace(_, _)
split_whitespace(str, word) ==
  IF str = <<>> THEN (IF word = <<>> THEN <<>> ELSE << word >>)
  ELSE IF Head(str) = Ws
       THEN (IF word = <<>> THEN <<>> ELSE << word >>)
            \o split_whitespace(Tail(str), <<>>)
  ELSE split_whitespace(Tail(str), Append(word, Head(str)))

\* auth.rs:38-43  Account::access_token
access_token(acc) ==
  IF acc.type = "Offline" THEN "null" ELSE acc.access_token

\* main.rs:614-618  the replacements of parse_jvm_arguments
JvmReplacements ==
  [name \in {"natives_directory", "classpath", "launcher_name",
             "launcher_version"} |->
     IF name = "launcher_name" THEN "DropOut" ELSE name]

\* main.rs:431-441  the replacements of the game arguments
GameReplacements(acc) ==
  [name \in {"auth_player_name", "version_name", "game_directory",
             "assets_root", "assets_index_name", "auth_uuid",
             "auth_access_token", "user_type", "version_type",
             "user_properties"} |->
     IF name = "auth_player_name" THEN acc.username
     ELSE IF name = "auth_uuid" THEN acc.uuid
     ELSE IF name = "auth_access_token" THEN access_token(acc)
     ELSE IF name = "user_type" THEN "mojang"
     ELSE IF name = "version_type" THEN "release"
     ELSE IF name = "user_properties" THEN "{}"
     ELSE name]

\* the strings of a "value": a string, or the string elements of an array
RECURSIVE string_items(_)
string_items(items) ==
  IF items = <<>> THEN <<>>
  ELSE (IF Head(items).kind = "string" THEN << Head(items).str >> ELSE <<>>)
       \o string_items(Tail(items))

value_strings(value) ==
  IF value = None THEN <<>>
  ELSE IF Unwrap(value).kind = "string" THEN << Unwrap(value).str >>
  ELSE IF Unwrap(value).kind = "array" THEN string_items(Unwrap(value).items)
  ELSE <<>>

\* main.rs:633-643 (JVM) and 473-483 (game): the rules of an entry; an
\* entry whose rules do not parse is dropped from the JVM arguments and
\* kept in the game arguments
entry_allowed(item, os, on_parse_error) ==
  IF item.rules.key = "absent" THEN TRUE
  ELSE IF item.rules.key = "invalid" THEN on_parse_error
  ELSE is_library_allowed(Some(item.rules.list), os)

\* main.rs:621-629, 646-666  the strings of a JVM entry are substituted and
\* pushed unless they start with -Xmx or -Xms
RECURSIVE push_jvm_strings(_)
push_jvm_strings(strs) ==
  IF strs = <<>> THEN <<>>
  ELSE LET arg == replace_all(Head(strs), JvmReplacements)
       IN (IF is_memory_arg(arg) THEN <<>> ELSE << arg >>)
          \o push_jvm_strings(Tail(strs))

RECURSIVE jvm_items(_, _)
jvm_items(list, os) ==
  IF list = <<>> THEN <<>>
  ELSE LET item == Head(list)
       IN (IF item.kind = "string" THEN push_jvm_strings(<< item.str >>)
           ELSE IF item.kind = "object" /\ entry_allowed(item, os, FALSE)
                THEN push_jvm_strings(value_strings(item.value))
           ELSE <<>>)
          \o jvm_items(Tail(list), os)

\* main.rs:607-673  parse_jvm_arguments
parse_jvm_arguments(jvm_args, os) ==
  IF jvm_args.kind = "array" THEN jvm_items(jvm_args.items, os) ELSE <<>>

\* main.rs:485-509  the strings of a rule-gated game entry are substituted
\* and pushed unless a placeholder is left in them
RECURSIVE push_checked_strings(_, _)
push_checked_strings(strs, replacements) ==
  IF strs = <<>> THEN <<>>
  ELSE LET arg == replace_all(Head(strs), replacements)
       IN (IF has_unresolved_placeholder(arg) THEN <<>> ELSE << arg >>)
          \o push_checked_strings(Tail(strs), replacements)

\* main.rs:461-510  the entries of the game argument array; a plain string
\* entry is substituted and pushed as it is
RECURSIVE game_items(_, _, _)
game_items(list, replacements, os) ==
  IF list = <<>> THEN <<>>
  ELSE LET item == Head(list)
       IN (IF item.kind = "string"
           THEN << replace_all(item.str, replacements) >>
           ELSE IF item.kind = "object" /\ entry_allowed(item, os, TRUE)
                THEN push_checked_strings(value_strings(item.value),
                                          replacements)
           ELSE <<>>)
          \o game_items(Tail(list), replacements, os)

\* main.rs:444-452  the legacy string: every word is substituted and pushed
legacy_items(words, replacements) ==
  [i \in 1..Len(words) |-> replace_all(words[i], replacements)]

\* main.rs:443-512  the game arguments
game_arguments(details, replacements, os) ==
  IF IsSome(details.minecraft_arguments)
  THEN legacy_items(split_whitespace(Unwrap(details.minecraft_arguments),
                                     <<>>),
                    replacements)
  ELSE IF IsSome(details.arguments)
          /\ IsSome(Unwrap(details.arguments).game)
          /\ Unwrap(Unwrap(details.arguments).game).kind = "array"
       THEN game_items(Unwrap(Unwrap(details.arguments).game).items,
                       replacements, os)
  ELSE <<>>

\* entries of a JVM argument template
JvmItems ==
  { JString(<< Lit("-Xmx"), Lit("2G") >>),
    JString(<< Lit("-Djava.library.path="), Ph("natives_directory") >>),
    JString(<< Lit("-cp") >>),
    JString(<< Ph("classpath") >>),
    JString(<< Lit("-Dos.version="), Ph("os_version") >>),
    JObject(RuleList1([action |-> "allow",
                       os |-> Some([name |-> Some("osx"), version |-> None,
                                    arch |-> None]),
                       features |-> None]),
            Some(JString(<< Lit("-XstartOnFirstThread") >>))),
    JObject(InvalidRules, Some(JString(<< Lit("-Xss1M") >>))),
    JObject(NoRules, Some(JString(<< Lit("-Xmx"), Lit("4G") >>))),
    JObject(NoRules,
            Some(JArray(<< JString(<< Lit("-Xms"), Lit("1G") >>),
                           JString(<< Lit("-Dbrand="), Ph("launcher_name") >>),
                           JNumber >>))) }

\* entries of a game argument template
GameItems ==
  { JString(<< Lit("--username") >>),
    JString(<< Ph("auth_player_name") >>),
    JString(<< Ph("auth_access_token") >>),
    JString(<< Ph("clientid") >>),
    JObject(RuleList1([action |-> "allow", os |-> None,
                       features |-> Some("is_demo_user")]),
            Some(JString(<< Lit("--demo") >>))),
    JObject(RuleList1([action |-> "allow", os |-> None, features |-> None]),
            Some(JArray(<< JString(<< Lit("--width") >>),
                           JString(<< Ph("resolution_width") >>) >>))),
    JObject(InvalidRules, Some(JString(<< Ph("version_name") >>))),
    JObject(NoRules, None),
    JNumber }

\* legacy minecraftArguments strings
LegacyChoices ==
  { << Lit("--username"), Ws, Ph("auth_player_name"), Ws, Ws,
       Lit("--session"), Ws, Ph("auth_session") >>,
    << Ws, Lit("--accessToken"), Ws, Ph("auth_access_token") >> }

TemplateChoices(items) ==
  { None, Some(JOther) } \cup
  { Some(JArray(q)) : q \in SeqsUpTo(items, MaxTemplate) }

\* game_version.rs:17-18  the argument fields of the resolved descriptor:
\* the new format, the legacy string (with or without new-format templates
\* beside it), or neither
VersionDetailsChoices ==
  { [minecraft_arguments |-> None,
     arguments |-> Some([jvm |-> j, game |-> g])] :
      j \in TemplateChoices(JvmItems), g \in TemplateChoices(GameItems) }
  \cup
  { [minecraft_arguments |-> Some(l), arguments |-> a] :
      l \in LegacyChoices,
      a \in { None,
              Some([jvm |-> Some(JArray(<< JString(<< Ph("classpath") >>) >>)),
                    game |-> Some(JArray(<< JString(<< Lit("--demo") >>) >>))]) } }
  \cup
  { [minecraft_arguments |-> None, arguments |-> None] }

MicrosoftAccountExpiring(at) ==
  [type |-> "Microsoft", username |-> "alex", uuid |-> "u-alex",
   access_token |-> "mc-token", refresh_token |-> Some("mc-refresh"),
   expires_at |-> at]

ArgsIdle ==
  /\ account = None
  /\ clock = 0
  /\ version_details = <<>>
  /\ args = <<>>
  /\ arg_pc = "idle"

\* start_game is called: the session has no account, an offline account or
\* a Microsoft account whose token expires in an hour, in 299 seconds, or
\* has expired
ArgsInit ==
  /\ clock = 5000
  /\ account \in
       { None, Some(OfflineAccount) } \cup
       { Some(MicrosoftAccountExpiring(clock + left)) :
           left \in {3600, 299, 0 - 100} }
  /\ version_details \in VersionDetailsChoices
  /\ args = <<>>
  /\ arg_pc = "account"
  /\ rules = None
  /\ allowed = None
  /\ consts_OS \in {"linux", "macos"}

\* main.rs:77-84  the active account is cloned, or the launch ends
TakeAccount ==
  /\ arg_pc = "account"
  /\ arg_pc' = IF account = None THEN "error" ELSE "jvm"
  /\ UNCHANGED << account, clock, version_details, args, nonArgs >>

\* main.rs:400-408  the JVM arguments of the template
JvmArguments ==
  /\ arg_pc = "jvm"
  /\ args' =
       IF IsSome(version_details.arguments)
          /\ IsSome(Unwrap(version_details.arguments).jvm)
       THEN args \o
            parse_jvm_arguments(Unwrap(Unwrap(version_details.arguments).jvm),
                                consts_OS)
       ELSE args
  /\ arg_pc' = "fixed"
  /\ UNCHANGED << account, clock, version_details, nonArgs >>

has_library_path_equals(list) ==
  \E i \in 1..Len(list) : list[i] = << Lit("-Djava.library.path=") >>

\* main.rs:416  args.iter().any(|a| a.contains("-Djava.library.path"))
has_library_path(list) ==
  \E i \in 1..Len(list) : \E j \in 1..Len(list[i]) :
     list[i][j] = Lit("-Djava.library.path=")

\* main.rs:421  args.iter().any(|a| a == "-cp" || a == "-classpath")
has_classpath_flag(list) ==
  \E i \in 1..Len(list) :
     list[i] \in { << Lit("-cp") >>, << Lit("-classpath") >> }

\* main.rs:410-427  memory bounds, native library path, classpath, main class
FixedArguments ==
  /\ arg_pc = "fixed"
  /\ LET a1 == args \o << << Lit("-Xmx"), Val("max_memory"), Lit("M") >>,
                          << Lit("-Xms"), Val("min_memory"), Lit("M") >> >>
         a2 == IF has_library_path(a1)
               THEN a1
               ELSE Append(a1, << Lit("-Djava.library.path="),
                                  Val("natives_directory") >>)
         a3 == IF has_classpath_flag(a2)
               THEN a2
               ELSE a2 \o << << Lit("-cp") >>, << Val("classpath") >> >>
     IN args' = Append(a3, << Val("main_class") >>)
  /\ arg_pc' = "game"
  /\ UNCHANGED << account, clock, version_details, nonArgs >>

\* main.rs:429-512  the game arguments
GameArguments ==
  /\ arg_pc = "game"
  /\ args' = args \o game_arguments(version_details,
                                     GameReplacements(Unwrap(account)),
                                     consts_OS)
  /\ arg_pc' = "spawn"
  /\ UNCHANGED << account, clock, version_details, nonArgs >>

\* main.rs:527-550  Command::new(java).args(&args).spawn()
SpawnGame ==
  /\ arg_pc = "spawn"
  /\ arg_pc' \in {"spawned", "error"}
  /\ UNCHANGED << account, clock, version_details, args, nonArgs >>

ArgsNext ==
  \/ TakeAccount
  \/ JvmArguments
  \/ FixedArguments
  \/ GameArguments
  \/ SpawnGame

(***************************************************************************)
(* PART 7: the game process and the three tasks that watch it              *)
(* (main.rs:527-604).  The process writes lines to its two output pipes    *)
(* and exits with a status; a reader task per pipe emits each line, and    *)
(* the exit monitor awaits child.wait().                                   *)
(***************************************************************************)
MaxLines == 2

Streams == {"stdout", "stderr"}

\* std::process::ExitStatus: code() is None when a signal ended the process
ExitStatuses == { [code |-> Some(0)], [code |-> Some(1)], [code |-> None] }

\* window.emit(event, payload); the text of a log line is left out
Emit(event, payload) == [event |-> event, payload |-> payload]

\* main.rs:594  status.code().unwrap_or(-1)
exit_payload(status) ==
  IF IsSome(status.code) THEN Unwrap(status.code) ELSE 0 - 1

ProcInit ==
  /\ child_proc = "none"
  /\ child_status = None
  /\ pipe = [s \in Streams |-> 0]
  /\ written = [s \in Streams |-> 0]
  /\ reader_pc = [s \in Streams |-> "idle"]
  /\ exit_pc = "idle"
  /\ launch_result = None
  /\ window_events = <<>>

\* main.rs:546-548  spawn() fails: the error is returned to the caller
SpawnFails ==
  /\ child_proc = "none" /\ launch_result = None
  /\ launch_result' = Some(Err("Failed to launch java"))
  /\ UNCHANGED << child_proc, child_status, pipe, written, reader_pc, exit_pc,
                  window_events, nonProc >>

\* main.rs:546-603  spawn() succeeds: the three tasks are started and
\* start_game returns
SpawnSucceeds ==
  /\ child_proc = "none" /\ launch_result = None
  /\ child_proc' = "running"
  /\ reader_pc' = [s \in Streams |-> "reading"]
  /\ exit_pc' = "waiting"
  /\ window_events' = Append(window_events, Emit("launcher-log", 0))
  /\ launch_result' = Some(Ok("Launched Minecraft successfully!"))
  /\ UNCHANGED << child_status, pipe, written, nonProc >>

\* the game prints a line
ChildWrites(s) ==
  /\ child_proc = "running"
  /\ written[s] < MaxLines
  /\ pipe' = [pipe EXCEPT ![s] = @ + 1]
  /\ written' = [written EXCEPT ![s] = @ + 1]
  /\ UNCHANGED << child_proc, child_status, reader_pc, exit_pc, launch_result,
                  window_events, nonProc >>

\* the game terminates; its ends of the pipes are closed
ChildExits ==
  /\ child_proc = "running"
  /\ \E status \in ExitStatuses : child_status' = Some(status)
  /\ child_proc' = "exited"
  /\ UNCHANGED << pipe, written, reader_pc, exit_pc, launch_result,
                  window_events, nonProc >>

\* main.rs:568-571, 579-582  next_line() gives Ok(Some(line))
ReadLine(s) ==
  /\ reader_pc[s] = "reading"
  /\ pipe[s] > 0
  /\ pipe' = [pipe EXCEPT ![s] = @ - 1]
  /\ window_events' =
       Append(window_events,
              Emit(IF s = "stdout" THEN "game-stdout" ELSE "game-stderr",
                   written[s] - pipe[s] + 1))
  /\ UNCHANGED << child_proc, child_status, written, reader_pc, exit_pc,
                  launch_result, nonProc >>

\* main.rs:570-574, 581-585  next_line() gives Ok(None) at the end of the
\* stream, or Err for a line it cannot decode: the loop ends either way
ReadEnds(s) ==
  /\ reader_pc[s] = "reading"
  /\ \/ pipe[s] = 0 /\ child_proc = "exited"
     \/ pipe[s] > 0
  /\ reader_pc' = [reader_pc EXCEPT ![s] = "ended"]
  /\ window_events' = Append(window_events, Emit("launcher-log", 0))
  /\ UNCHANGED << child_proc, child_status, pipe, written, exit_pc,
                  launch_result, nonProc >>

\* main.rs:590-595  child.wait() gives Ok(status)
WaitOk ==
  /\ exit_pc = "waiting"
  /\ child_proc = "exited"
  /\ window_events' =
       window_events \o
       << Emit("launcher-log", 0),
          Emit("game-exited", exit_payload(Unwrap(child_status))) >>
  /\ exit_pc' = "done"
  /\ UNCHANGED << child_proc, child_status, pipe, written, reader_pc,
                  launch_result, nonProc >>

\* main.rs:596-599  child.wait() gives Err: only a log line is emitted
WaitErr ==
  /\ exit_pc = "waiting"
  /\ window_events' = Append(window_events, Emit("launcher-log", 0))
  /\ exit_pc' = "done"
  /\ UNCHANGED << child_proc, child_status, pipe, written, reader_pc,
                  launch_result, nonProc >>

ExitMonitor == WaitOk \/ WaitErr

ProcNext ==
  \/ SpawnFails
  \/ SpawnSucceeds
  \/ \E s \in Streams : ChildWrites(s)
  \/ ChildExits
  \/ \E s \in Streams : ReadLine(s)
  \/ \E s \in Streams : ReadEnds(s)
  \/ ExitMonitor

(***************************************************************************)
(* PART 8: the calls of AccountStorage on accounts.json, one at a time     *)
(* (account_storage.rs:78-149).  Every call loads the file, changes the    *)
(* loaded store and saves it.                                              *)
(***************************************************************************)
remove_account_keep_pointer(st, uuid) ==
  [accounts |-> retain_other(st.accounts, uuid),
   active_account_id |-> st.active_account_id]

\* account_storage.rs:113-120  remove_account, the store it saves
remove_account(st, uuid) ==
  LET kept == retain_other(st.accounts, uuid)
  IN [accounts |-> kept,
      active_account_id |->
        IF st.active_account_id = Some(uuid)
        THEN (IF kept = <<>> THEN None ELSE Some(Head(kept).uuid))
        ELSE st.active_account_id]

\* account_storage.rs:141-149  set_active_account, the store it saves or
\* the error it returns
set_active_account(st, uuid) ==
  IF \E i \in 1..Len(st.accounts) : st.accounts[i].uuid = uuid
  THEN Ok([st EXCEPT !.active_account_id = Some(uuid)])
  ELSE Err("Account not found")

\* the accounts and ids the calls are made with
StoreAccounts ==
  { OfflineAccount,
    [type |-> "Offline", username |-> "herobrine", uuid |-> "u-herobrine"],
    OldMicrosoftAccount,
    MicrosoftAccountExpiring(8600) }

StoreTokens == { None, Some("ms-refresh-1"), Some("ms-refresh-2") }

StoreIds == { "u-steve", "u-herobrine", "u-alex", "u-nobody" }

\* account_storage.rs:87-94  save: the file holds the new store, or the
\* write failed and the file is as it was or is left without content,
\* which load reads as the default store
Saved(new, op, arguments) ==
  \/ /\ store' = new
     /\ store_call' = [op |-> op, arguments |-> arguments, before |-> store,
                       result |-> "Ok"]
  \/ /\ store' \in { store, EmptyStore }
     /\ store_call' = [op |-> op, arguments |-> arguments, before |-> store,
                       result |-> "Err"]

AddOrUpdateAccount ==
  /\ \E acc \in StoreAccounts, ms_refresh_token \in StoreTokens :
        Saved(add_or_update_account(store, acc, ms_refresh_token),
              "add_or_update_account", << acc, ms_refresh_token >>)
  /\ UNCHANGED nonStore

RemoveAccount ==
  /\ \E uuid \in StoreIds :
        Saved(remove_account(store, uuid), "remove_account", << uuid >>)
  /\ UNCHANGED nonStore

SetActiveAccount ==
  /\ \E uuid \in StoreIds :
        LET r == set_active_account(store, uuid)
        IN IF IsOk(r)
           THEN Saved(r[2], "set_active_account", << uuid >>)
           ELSE /\ store' = store
                /\ store_call' = [op |-> "set_active_account",
                                  arguments |-> << uuid >>, before |-> store,
                                  result |-> "Account not found"]
  /\ UNCHANGED nonStore

StoreNext ==
  \/ AddOrUpdateAccount
  \/ RemoveAccount
  \/ SetActiveAccount

(***************************************************************************)
(* PART 9: the asset tasks of start_game (main.rs:292-323).  The asset     *)
(* index maps logical names to objects; a hash is a string of characters   *)
(* and a path is a sequence of components.                                 *)
(***************************************************************************)
MaxAssets == 3

AssetNames == 1..MaxAssets

AssetHashes ==
  { << "a", "a", "1", "1" >>, << "a", "a", "2", "2" >>,
    << "b", "b", "3", "3" >> }

\* main.rs:158-163  the task of the client jar, pushed first
ClientTask ==
  [url |-> << "client-url" >>,
   path |-> << << "versions" >>, << "1.20" >>, << "1.20.jar" >> >>,
   sha1 |-> Some(<< "c", "c", "0", "0" >>),
   sha256 |-> None]

\* main.rs:309-322  the task of one object of the index
asset_task(hash) ==
  LET prefix == SubSeq(hash, 1, 2)
  IN [url |-> << "https://resources.download.minecraft.net/" >> \o prefix
                \o << "/" >> \o hash,
      path |-> << << "assets" >>, << "objects" >>, prefix, hash >>,
      sha1 |-> Some(hash),
      sha256 |-> None]

\* the index has been parsed; the client jar's task is in the list
AssetInit ==
  /\ asset_objects \in
       UNION { [names -> AssetHashes] : names \in SUBSET AssetNames }
  /\ asset_todo = DOMAIN asset_objects
  /\ download_tasks = << ClientTask >>

\* main.rs:308-323  one turn of `for (_name, object) in objects`; a HashMap
\* is visited in no particular order
PushAssetTask ==
  /\ \E name \in asset_todo :
        /\ download_tasks' =
             Append(download_tasks, asset_task(asset_objects[name]))
        /\ asset_todo' = asset_todo \ {name}
  /\ UNCHANGED << asset_objects, nonAssets >>

AssetNext == PushAssetTask

(***************************************************************************)
(* PART 10: Maven coordinates (maven.rs).  A string is a sequence of       *)
(* pieces: the characters ":", "@", ".", "/", "-" and runs of other        *)
(* characters.                                                             *)
(***************************************************************************)
MaxCoordLen == 8

FABRIC_MAVEN ==
  << "https:", "/", "/", "maven", ".", "fabricmc", ".", "net", "/" >>

FORGE_MAVEN ==
  << "https:", "/", "/", "maven", ".", "minecraftforge", ".", "net", "/" >>

MOJANG_LIBRARIES ==
  << "https:", "/", "/", "libraries", ".", "minecraft", ".", "net", "/" >>

\* str::find: the first position of ch, 0 if there is none
find(str, ch) ==
  IF \E i \in 1..Len(str) : str[i] = ch
  THEN CHOOSE i \in 1..Len(str) :
         str[i] = ch /\ \A k \in 1..(i - 1) : str[k] # ch
  ELSE 0

\* str::rfind: the last position of ch, 0 if there is none
rfind(str, ch) ==
  IF \E i \in 1..Len(str) : str[i] = ch
  THEN CHOOSE i \in 1..Len(str) :
         str[i] = ch /\ \A k \in (i + 1)..Len(str) : str[k] # ch
  ELSE 0

\* str::split(ch).collect()
RECURSIVE split(_, _, _)
split(str, ch, word) ==
  IF str = <<>> THEN << word >>
  ELSE IF Head(str) = ch
       THEN << word >> \o split(Tail(str), ch, <<>>)
  ELSE split(Tail(str), ch, Append(word, Head(str)))

\* str::replace(from, to) for single characters
replace_char(str, from, to) ==
  [i \in 1..Len(str) |-> IF str[i] = from THEN to ELSE str[i]]

trim_end_none(str, ch) == str

\* str::trim_end_matches
RECURSIVE trim_end_matches(_, _)
trim_end_matches(str, ch) ==
  IF str # <<>> /\ str[Len(str)] = ch
  THEN trim_end_matches(SubSeq(str, 1, Len(str) - 1), ch)
  ELSE str

\* str::starts_with
starts_with(str, prefix) ==
  Len(str) >= Len(prefix) /\ SubSeq(str, 1, Len(prefix)) = prefix

\* maven.rs:49-78  MavenCoordinate::parse
parse(coord) ==
  LET at_idx == rfind(coord, "@")
      coord_part == IF at_idx > 0 THEN SubSeq(coord, 1, at_idx - 1) ELSE coord
      extension == IF at_idx > 0
                   THEN SubSeq(coord, at_idx + 1, Len(coord))
                   ELSE << "jar" >>
      parts == split(coord_part, ":", <<>>)
  IN IF Len(parts) = 3
     THEN Some([group |-> parts[1], artifact |-> parts[2],
                version |-> parts[3], classifier |-> None,
                extension |-> extension])
     ELSE IF Len(parts) = 4
     THEN Some([group |-> parts[1], artifact |-> parts[2],
                version |-> parts[3], classifier |-> Some(parts[4]),
                extension |-> extension])
     ELSE None

\* maven.rs:90-108  MavenCoordinate::to_path
to_path(self) ==
  LET group_path == replace_char(self.group, ".", "/")
      filename ==
        IF IsSome(self.classifier)
        THEN self.artifact \o << "-" >> \o self.version \o << "-" >>
             \o Unwrap(self.classifier) \o << "." >> \o self.extension
        ELSE self.artifact \o << "-" >> \o self.version \o << "." >>
             \o self.extension
  IN group_path \o << "/" >> \o self.artifact \o << "/" >> \o self.version
     \o << "/" >> \o filename

\* maven.rs:129-132  MavenCoordinate::to_url
to_url(self, base_url) ==
  trim_end_matches(base_url, "/") \o << "/" >> \o to_path(self)

\* maven.rs:162-173  the repository guessed from the group
guess_repository(group) ==
  IF starts_with(group, << "net", ".", "fabricmc" >>) THEN FABRIC_MAVEN
  ELSE IF starts_with(group, << "net", ".", "minecraftforge" >>)
          \/ starts_with(group, << "cpw", ".", "mods" >>)
       THEN FORGE_MAVEN
  ELSE MOJANG_LIBRARIES

resolve_library_url_parse_first(name, explicit_url, maven_url) ==
  LET coord == parse(name)
  IN IF coord = None THEN None
     ELSE IF IsSome(explicit_url) THEN explicit_url
     ELSE Some(to_url(Unwrap(coord),
                      IF IsSome(maven_url) THEN Unwrap(maven_url)
                      ELSE guess_repository(Unwrap(coord).group)))

\* maven.rs:148-176  resolve_library_url
resolve_library_url(name, explicit_url, maven_url) ==
  IF IsSome(explicit_url) THEN explicit_url
  ELSE LET coord == parse(name)
       IN IF coord = None THEN None
          ELSE Some(to_url(Unwrap(coord),
                           IF IsSome(maven_url) THEN Unwrap(maven_url)
                           ELSE guess_repository(Unwrap(coord).group)))

\* every string of at most MaxCoordLen characters over "a", ":" and "@"
ShortCoords == SeqsUpTo({ "a", ":", "@" }, MaxCoordLen)

\* library names as descriptors have them, and names that are no coordinate
LibraryNames ==
  { << "net", ".", "fabricmc", ":", "fabric", "-", "loader", ":",
       "0", ".", "14", ".", "21" >>,
    << "org", ".", "lwjgl", ":", "lwjgl", ":", "3", ".", "3", ".", "1", ":",
       "natives", "-", "linux" >>,
    << "com", ".", "example", ":", "artifact", ":", "1", ".", "0", "@",
       "zip" >>,
    << "net", ".", "minecraftforge", ":", "forge", ":", "1", ".", "20" >>,
    << "cpw", ".", "mods", ":", "modlauncher", ":", "10", ".", "0" >>,
    << "net", ".", "fabricmc", "x", ":", "thing", ":", "1" >>,
    << "org", ".", "net", ".", "fabricmc", ":", "thing", ":", "1" >>,
    << "lwjgl", "-", "3", ".", "3", ".", "1", ".", "jar" >>,
    << "a", ":", "b", ":", "c", ":", "d", ":", "e" >> }

ExplicitUrls ==
  { None,
    Some(<< "https:", "/", "/", "example", ".", "com", "/", "lib", ".",
            "jar" >>) }

\* base URLs with no, one and two trailing slashes, and the empty one
BaseUrls ==
  { << "https:", "/", "/", "repo" >>,
    << "https:", "/", "/", "repo", "/" >>,
    << "https:", "/", "/", "repo", "/", "/" >>,
    <<>> }

MavenInit ==
  /\ \/ /\ mv_name \in ShortCoords
        /\ mv_explicit_url = None
        /\ mv_maven_url = None
     \/ /\ mv_name \in LibraryNames
        /\ mv_explicit_url \in ExplicitUrls
        /\ mv_maven_url \in { None } \cup { Some(b) : b \in BaseUrls }
  /\ mv_pc = "parse"
  /\ mv_coord = None
  /\ mv_path = None
  /\ mv_base = <<>>
  /\ mv_url = None
  /\ mv_resolved = None

ParseCoordinate ==
  /\ mv_pc = "parse"
  /\ mv_coord' = Some(parse(mv_name))
  /\ mv_pc' = IF IsSome(parse(mv_name)) THEN "path" ELSE "resolve"
  /\ UNCHANGED << mv_name, mv_explicit_url, mv_maven_url, mv_path, mv_base,
                  mv_url, mv_resolved, nonMaven >>

ToPath ==
  /\ mv_pc = "path"
  /\ mv_path' = Some(to_path(Unwrap(Unwrap(mv_coord))))
  /\ mv_pc' = "url"
  /\ UNCHANGED << mv_name, mv_explicit_url, mv_maven_url, mv_coord, mv_base,
                  mv_url, mv_resolved, nonMaven >>

ToUrl ==
  /\ mv_pc = "url"
  /\ \E base_url \in BaseUrls :
        /\ mv_base' = base_url
        /\ mv_url' = Some(to_url(Unwrap(Unwrap(mv_coord)), base_url))
  /\ mv_pc' = "resolve"
  /\ UNCHANGED << mv_name, mv_explicit_url, mv_maven_url, mv_coord, mv_path,
                  mv_resolved, nonMaven >>

ResolveLibraryUrl ==
  /\ mv_pc = "resolve"
  /\ mv_resolved' =
       Some(resolve_library_url(mv_name, mv_explicit_url, mv_maven_url))
  /\ mv_pc' = "done"
  /\ UNCHANGED << mv_name, mv_explicit_url, mv_maven_url, mv_coord, mv_path,
                  mv_base, mv_url, nonMaven >>

MavenNext ==
  \/ ParseCoordinate
  \/ ToPath
  \/ ToUrl
  \/ ResolveLibraryUrl

(***************************************************************************)
(* PART 11: the session commands, one at a time.  login_offline,           *)
(* complete_microsoft_login, refresh_account and logout (main.rs) each run *)
(* from call to return before the next one starts; the session is what     *)
(* setup restored from accounts.json.  The outcome of the request chain    *)
(* (PART 4) is an input of the command here.                               *)
(***************************************************************************)
Usernames == { "steve", "herobrine" }

\* auth.rs:71-74  generate_offline_uuid: one id per username
generate_offline_uuid(username) ==
  IF username = "steve" THEN "u-steve" ELSE "u-herobrine"

\* main.rs:689-690  the account login_offline builds
offline_account(username) ==
  [type |-> "Offline", username |-> username,
   uuid |-> generate_offline_uuid(username)]

\* the refresh token a token response carries
IssuedTokens == { None, Some("ms-refresh-2") }

\* main.rs:788-797, auth.rs:171-181  the account a successful chain builds
chain_account(issued) ==
  [type |-> "Microsoft", username |-> "alex", uuid |-> "u-alex",
   access_token |-> "new-mc", refresh_token |-> issued, expires_at |-> 8600]

\* account_storage.rs:39-50  StoredAccount::to_account
to_account(stored_account) ==
  IF stored_account.type = "Offline" THEN stored_account
  ELSE [type |-> "Microsoft",
        username |-> stored_account.username,
        uuid |-> stored_account.uuid,
        access_token |-> stored_account.access_token,
        refresh_token |-> stored_account.refresh_token,
        expires_at |-> stored_account.expires_at]

\* accounts.json as earlier runs left it
StartupStores ==
  { EmptyStore,
    add_or_update_account(EmptyStore, OfflineAccount, None),
    add_or_update_account(
      add_or_update_account(EmptyStore, OfflineAccount, None),
      OldMicrosoftAccount, Some("old-ms-refresh")),
    add_or_update_account(
      add_or_update_account(EmptyStore, OldMicrosoftAccount,
                            Some("old-ms-refresh")),
      OfflineAccount, None) }

\* main.rs:1214-1230  setup: the active record of the store becomes the
\* session's account, its refresh token the in-memory refresh token
SessionInit ==
  /\ auth_op = "idle"
  /\ auth_pc = "idle"
  /\ auth_input = None
  /\ auth_now = 0
  /\ token_resp = None
  /\ auth_vals = <<>>
  /\ auth_result = None
  /\ auth_calls = <<>>
  /\ auth_before = None
  /\ store \in StartupStores
  /\ LET found == get_active_account(store) IN
       /\ active_account =
            IF IsSome(found) THEN Some(to_account(Unwrap(found)[1])) ELSE None
       /\ ms_refresh_state =
            IF IsSome(found) THEN Unwrap(found)[2] ELSE None
  /\ store_call = <<>>

\* what the session commands leave alone
nonSession ==
  << dlVars, mergeVars, resolveVars, ruleVars, expiryVars, argVars,
     procVars, assetVars, mavenVars, loginVars, progressVars, libVars,
     auth_op, auth_pc, auth_input, auth_now, token_resp, auth_vals,
     auth_result, auth_calls, auth_before >>

\* `storage.<call>(...)?` at the end of a command: the store is saved and
\* the command returns Ok, or the save fails and the command returns Err
SavedBy(new, op, arguments) ==
  \E saved \in BOOLEAN :
    /\ store' = IF saved THEN new ELSE store
    /\ store_call' = [op |-> op, arguments |-> arguments, before |-> store,
                      result |-> IF saved THEN "Ok" ELSE "Err"]

\* a command that returns Err before it touched the store
Failed(op, arguments, error) ==
  /\ store_call' = [op |-> op, arguments |-> arguments, before |-> store,
                    result |-> error]
  /\ UNCHANGED store

\* main.rs:683-704  login_offline
LoginOffline ==
  /\ \E username \in Usernames :
       LET acc == offline_account(username) IN
         /\ active_account' = Some(acc)
         /\ SavedBy(add_or_update_account(store, acc, None),
                    "login_offline", << username >>)
  /\ UNCHANGED << ms_refresh_state, nonSession >>

\* main.rs:713-737  logout
Logout ==
  /\ active_account' = None
  /\ IF IsSome(active_account)
     THEN SavedBy(remove_account(store, Unwrap(active_account).uuid),
                  "logout", <<>>)
     ELSE /\ store_call' = [op |-> "logout", arguments |-> <<>>,
                            before |-> store, result |-> "Ok"]
          /\ UNCHANGED store
  /\ UNCHANGED << ms_refresh_state, nonSession >>

\* main.rs:761-813  complete_microsoft_login: the token exchange fails, or
\* a later hop fails after the refresh token was kept, or the account is
\* set and saved
CompleteMicrosoftLogin ==
  /\ \E issued \in IssuedTokens,
        outcome \in { "token_failed", "hop_failed", "completed" } :
       IF outcome = "token_failed"
       THEN /\ Failed("complete_microsoft_login", << issued >>, outcome)
            /\ UNCHANGED << active_account, ms_refresh_state >>
       ELSE IF outcome = "hop_failed"
       THEN /\ ms_refresh_state' = issued
            /\ Failed("complete_microsoft_login", << issued >>, outcome)
            /\ UNCHANGED active_account
       ELSE /\ ms_refresh_state' = issued
            /\ active_account' = Some(chain_account(issued))
            /\ SavedBy(add_or_update_account(store, chain_account(issued),
                                             issued),
                       "complete_microsoft_login", << issued >>)
  /\ UNCHANGED nonSession

\* main.rs:816-848  refresh_account
RefreshAccount ==
  /\ LET old == stored_ms_refresh(store) IN
       IF ~IsOk(old)
       THEN /\ Failed("refresh_account", <<>>, old[2])
            /\ UNCHANGED << active_account, ms_refresh_state >>
       ELSE \E issued \in IssuedTokens, outcome \in { "hop_failed", "completed" } :
              IF outcome = "hop_failed"
              THEN /\ Failed("refresh_account", << issued >>, outcome)
                   /\ UNCHANGED << active_account, ms_refresh_state >>
              ELSE LET token == new_ms_refresh(issued, old[2]) IN
                     /\ active_account' = Some(chain_account(issued))
                     /\ ms_refresh_state' = Some(token)
                     /\ SavedBy(add_or_update_account(
                                  store, chain_account(issued), Some(token)),
                                "refresh_account", << issued >>)
  /\ UNCHANGED nonSession

SessionNext ==
  \/ LoginOffline
  \/ Logout
  \/ CompleteMicrosoftLogin
  \/ RefreshAccount

(***************************************************************************)
(* PART 12: two logins at the same time.  Tauri runs each async command    *)
(* as its own task, so the statements of two logins interleave: the        *)
(* assignment to AccountState, then load() and save() inside               *)
(* add_or_update_account, which holds no lock across the two.              *)
(***************************************************************************)
Logins == { 1, 2 }

\* login 1 is login_offline("steve"); login 2 is complete_microsoft_login
\* after its last hop
login_account(p) ==
  IF p = 1 THEN offline_account("steve")
  ELSE chain_account(Some("ms-refresh-2"))

login_token(p) == IF p = 1 THEN None ELSE Some("ms-refresh-2")

LoginsInit ==
  /\ SessionInit
  /\ login_pc = [p \in Logins |-> "set"]
  /\ login_loaded = [p \in Logins |-> None]

nonLogins ==
  << dlVars, mergeVars, resolveVars, ruleVars, expiryVars, argVars,
     procVars, assetVars, mavenVars, storeVars, progressVars, libVars,
     auth_op, auth_pc, auth_input, auth_now, token_resp, auth_vals,
     auth_result, auth_calls, auth_before, ms_refresh_state >>

\* main.rs:692, main.rs:801  *state.active_account.lock().unwrap() = Some(..)
SetActive(p) ==
  /\ login_pc[p] = "set"
  /\ active_account' = Some(login_account(p))
  /\ login_pc' = [login_pc EXCEPT ![p] = "load"]
  /\ UNCHANGED << store, login_loaded, nonLogins >>

\* account_storage.rs:101  let mut store = self.load()
LoadStore(p) ==
  /\ login_pc[p] = "load"
  /\ login_loaded' = [login_loaded EXCEPT ![p] = Some(store)]
  /\ login_pc' = [login_pc EXCEPT ![p] = "save"]
  /\ UNCHANGED << store, active_account, nonLogins >>

\* account_storage.rs:102-110  the record is put into the store that was
\* loaded and that store is written
SaveStore(p) ==
  /\ login_pc[p] = "save"
  /\ \E saved \in BOOLEAN :
       IF saved
       THEN /\ store' = add_or_update_account(Unwrap(login_loaded[p]),
                                              login_account(p), login_token(p))
            /\ login_pc' = [login_pc EXCEPT ![p] = "done"]
       ELSE /\ login_pc' = [login_pc EXCEPT ![p] = "error"]
            /\ UNCHANGED store
  /\ UNCHANGED << active_account, login_loaded, nonLogins >>

LoginsNext ==
  \E p \in Logins : SetActive(p) \/ LoadStore(p) \/ SaveStore(p)

LoginIdle ==
  /\ login_pc = <<>>
  /\ login_loaded = <<>>

(***************************************************************************)
(* PART 13: the libraries of start_game (main.rs:165-246, 371-397).  The   *)
(* first loop pushes the download tasks of the allowed libraries; after    *)
(* the downloads the second loop builds the classpath.                     *)
(***************************************************************************)
\* Bound: the number of libraries of the descriptor.
MaxLibs == 2

\* env::consts::OS of the build the libraries are filtered for
BuildOs == "linux"

LibrariesDir == << "libraries" >>

\* game_version.rs:38-43  DownloadArtifact, with and without a path
ArtifactWithPath ==
  [sha1 |-> Some(<< "a", "1" >>), size |-> None,
   url |-> << "https:", "/", "/", "libraries", "/", "a", ".", "jar" >>,
   path |-> Some(<< "com", "/", "a", "/", "a", ".", "jar" >>)]

ArtifactWithoutPath == [ArtifactWithPath EXCEPT !.path = None]

NativeArtifact ==
  [sha1 |-> Some(<< "b", "2" >>), size |-> None,
   url |-> << "https:", "/", "/", "libraries", "/", "a", "-", "natives",
              ".", "jar" >>,
   path |-> Some(<< "com", "/", "a", "/", "a", "-", "natives", ".", "jar" >>)]

VanillaName == << "com", ".", "a", ":", "a", ":", "1" >>

FabricName ==
  << "net", ".", "fabricmc", ":", "fabric", "-", "loader", ":",
     "0", ".", "14", ".", "21" >>

NoCoordinateName == << "lwjgl", "-", "3", ".", "3", ".", "1", ".", "jar" >>

\* a rule list that allows on macOS only
OsxOnly ==
  Some(<< [action |-> "allow",
           os |-> Some([name |-> Some("osx"), version |-> None,
                        arch |-> None]),
           features |-> None] >>)

\* game_version.rs:56-63  Library: vanilla libraries with an artifact, with
\* natives, with both; mod loader libraries without downloads
DescriptorLibraries ==
  [downloads : { Some([artifact |-> Some(ArtifactWithPath),
                       classifiers |-> None]),
                 Some([artifact |-> Some(ArtifactWithoutPath),
                       classifiers |-> None]),
                 Some([artifact |-> None,
                       classifiers |-> Some(NativeArtifact)]) },
   name : { VanillaName },
   rules : { None, OsxOnly },
   url : { None }]
  \cup
  [downloads : { None },
   name : { FabricName, NoCoordinateName },
   rules : { None, OsxOnly },
   url : { None, Some(<< "https:", "/", "/", "repo", "/" >>) }]

\* main.rs:175-181, 384-388  the path of a library's explicit artifact
artifact_path(lib, artifact) ==
  << LibrariesDir,
     IF IsSome(artifact.path) THEN Unwrap(artifact.path)
     ELSE lib.name \o << ".jar" >> >>

\* maven.rs:117-120, 186-189  get_library_path
get_library_path(name, libraries_dir) ==
  LET coord == parse(name)
  IN IF coord = None THEN None
     ELSE Some(<< libraries_dir, to_path(Unwrap(coord)) >>)

\* main.rs:173-189, 228-243  the main-artifact task of an allowed library:
\* the explicit artifact, or the Maven-resolved one when the library has no
\* downloads
main_artifact_task(lib) ==
  IF IsSome(lib.downloads)
  THEN LET artifact == Unwrap(lib.downloads).artifact
       IN IF IsSome(artifact)
          THEN Some([url |-> Unwrap(artifact).url,
                     path |-> artifact_path(lib, Unwrap(artifact)),
                     sha1 |-> Unwrap(artifact).sha1,
                     sha256 |-> None])
          ELSE None
  ELSE LET url == resolve_library_url(lib.name, None, lib.url)
           lib_path == get_library_path(lib.name, LibrariesDir)
       IN IF IsSome(url) /\ IsSome(lib_path)
          THEN Some([url |-> Unwrap(url), path |-> Unwrap(lib_path),
                     sha1 |-> None, sha256 |-> None])
          ELSE None

\* main.rs:193-227  the natives task: the classifier entry of the build's OS
native_task(lib) ==
  IF IsSome(lib.downloads) /\ IsSome(Unwrap(lib.downloads).classifiers)
  THEN LET native_artifact == Unwrap(Unwrap(lib.downloads).classifiers)
       IN Some([url |-> native_artifact.url,
                path |-> << LibrariesDir, Unwrap(native_artifact.path) >>,
                sha1 |-> native_artifact.sha1,
                sha256 |-> None])
  ELSE None

\* an option as the list of what it holds
AsList(opt) == IF IsSome(opt) THEN << Unwrap(opt) >> ELSE <<>>

\* main.rs:380-393  the classpath entries of the libraries
RECURSIVE classpath_libraries(_)
classpath_libraries(libs) ==
  IF libs = <<>> THEN <<>>
  ELSE LET lib == Head(libs)
           entry ==
             IF /\ is_library_allowed(lib.rules, BuildOs)
                /\ IsSome(lib.downloads)
                /\ IsSome(Unwrap(lib.downloads).artifact)
             THEN << artifact_path(lib, Unwrap(Unwrap(lib.downloads).artifact)) >>
             ELSE <<>>
       IN entry \o classpath_libraries(Tail(libs))

\* main.rs:154-163  the client jar's task is on the list before the loop
LibInit ==
  /\ lib_list \in SeqsUpTo(DescriptorLibraries, MaxLibs)
  /\ lib_index = 1
  /\ classpath_entries = <<>>
  /\ cp_pc = IF lib_list = <<>> THEN "classpath" ELSE "tasks"
  /\ lib_main_path = [i \in 1..Len(lib_list) |-> None]
  /\ download_tasks = << [ClientTask EXCEPT !.path = client_path("1.20")] >>
  /\ asset_objects = <<>>
  /\ asset_todo = {}

nonLibs ==
  << dlVars, mergeVars, resolveVars, ruleVars, authVars, expiryVars,
     argVars, procVars, storeVars, mavenVars, loginVars, progressVars,
     asset_objects, asset_todo >>

\* main.rs:170-246  one turn of `for lib in &version_details.libraries`
PushLibraryTasks ==
  /\ cp_pc = "tasks"
  /\ LET lib == lib_list[lib_index]
         is_allowed == is_library_allowed(lib.rules, BuildOs)
         main == IF is_allowed THEN main_artifact_task(lib) ELSE None
         native == IF is_allowed THEN native_task(lib) ELSE None
     IN /\ download_tasks' = download_tasks \o AsList(main) \o AsList(native)
        /\ lib_main_path' =
             [lib_main_path EXCEPT ![lib_index] =
                IF IsSome(main) THEN Some(Unwrap(main).path) ELSE None]
  /\ lib_index' = lib_index + 1
  /\ cp_pc' = IF lib_index = Len(lib_list) THEN "classpath" ELSE "tasks"
  /\ UNCHANGED << lib_list, classpath_entries, nonLibs >>

\* main.rs:377-397  the classpath: the libraries, then the client jar
BuildClasspath ==
  /\ cp_pc = "classpath"
  /\ classpath_entries' =
       Append(classpath_libraries(lib_list), client_path("1.20"))
  /\ cp_pc' = "done"
  /\ UNCHANGED << lib_list, lib_index, lib_main_path, download_tasks,
                  nonLibs >>

LibNext ==
  \/ PushLibraryTasks
  \/ BuildClasspath

LibIdle ==
  /\ lib_list = <<>>
  /\ lib_index = 0
  /\ classpath_entries = <<>>
  /\ cp_pc = "idle"
  /\ lib_main_path = <<>>

ProcIdle ==
  /\ child_proc = "none"
  /\ child_status = None
  /\ pipe = <<>>
  /\ written = <<>>
  /\ reader_pc = <<>>
  /\ exit_pc = "idle"
  /\ launch_result = None
  /\ window_events = <<>>

StoreIdle == store_call = <<>>

AssetIdle ==
  /\ asset_objects = <<>>
  /\ asset_todo = {}
  /\ download_tasks = <<>>

MavenIdle ==
  /\ mv_name = <<>>
  /\ mv_explicit_url = None
  /\ mv_maven_url = None
  /\ mv_pc = "idle"
  /\ mv_coord = None
  /\ mv_path = None
  /\ mv_base = <<>>
  /\ mv_url = None
  /\ mv_resolved = None

DLIdle ==
  /\ tasks = <<>>
  /\ max_concurrent = 0
  /\ limit = 0
  /\ permits = 0
  /\ completed_files = 0
  /\ total_downloaded_bytes = 0
  /\ fs = <<>>
  /\ pc = <<>>
  /\ got = <<>>
  /\ phase = "idle"
  /\ complete = FALSE
  /\ launch = "none"
  /\ run = 0
  /\ requests = <<>>
  /\ incs = <<>>
  /\ emitted = <<>>
  /\ wrote = <<>>
  /\ skipped_size = <<>>
  /\ fs_ops = <<>>
  /\ read_valid = <<>>
  /\ read_invalid = <<>>
  /\ prev = <<>>
  /\ last_progress = None
  /\ final_count = <<>>

ResolveIdle ==
  /\ inherits = <<>>
  /\ defines = <<>>
  /\ stored = <<>>
  /\ lv_op = "idle"
  /\ lv_pc = "idle"
  /\ lv_want = None
  /\ lv_version = None
  /\ lv_log = <<>>

Init == DLInit /\ MergeIdle /\ ResolveIdle /\ RulesIdle /\ AuthIdle
  /\ ExpiryIdle /\ ArgsIdle
  /\ ProcIdle /\ StoreIdle /\ AssetIdle /\ MavenIdle /\ LoginIdle /\ LibIdle

Next == DLNext

\* one invocation of download_files inside start_game
Spec == Init /\ [][Next]_vars

\* every await of a task returns (each network and file operation answers),
\* and the executor keeps polling the stream; the task lists are those whose
\* digests, if any, are SHA-1
InitFair ==
  /\ Init
  /\ \A t \in Tasks : tasks[t].sha256 = None

SpecFair ==
  /\ InitFair
  /\ [][Next]_vars
  /\ \A t \in Tasks : WF_vars(TaskStep(t))
  /\ WF_vars(Return)

\* the repeat run is about one task and its file: the sibling task is kept
\* simple and no path starts as a directory
InitRepeat ==
  /\ Init
  /\ max_concurrent = 2
  /\ tasks[2].sha256 = None
  /\ tasks[2].url = "urlB"
  /\ \A p \in Paths : fs[p] # Directory

NextRepeat ==
  \/ \E t \in Tasks : TaskStep(t)
  \/ Return
  \/ Rerun

\* two invocations in a row with the same task list
SpecRepeat == InitRepeat /\ [][NextRepeat]_vars

InitMerge == MergeInit /\ DLIdle /\ ResolveIdle /\ RulesIdle /\ AuthIdle
  /\ ExpiryIdle /\ ArgsIdle
  /\ ProcIdle /\ StoreIdle /\ AssetIdle /\ MavenIdle /\ LoginIdle /\ LibIdle

NextMerge == ApplyMerge

\* merge_versions applied to one pair of descriptors
SpecMerge == InitMerge /\ [][NextMerge]_vars

InitResolve == ResolveInit /\ DLIdle /\ MergeIdle /\ RulesIdle /\ AuthIdle
  /\ ExpiryIdle /\ ArgsIdle
  /\ ProcIdle /\ StoreIdle /\ AssetIdle /\ MavenIdle /\ LoginIdle /\ LibIdle

NextResolve == ResolveNext

\* one call of load_version("v1") or of resolve_inheritance(v1's descriptor)
SpecResolve == InitResolve /\ [][NextResolve]_vars

\* each load returns, and the loop goes on when it has (the task is polled
\* until it completes)
SpecResolveFair ==
  InitResolve /\ [][NextResolve]_vars /\ WF_vars(NextResolve)

InitRules == RulesInit /\ DLIdle /\ MergeIdle /\ ResolveIdle /\ AuthIdle
  /\ ExpiryIdle /\ ArgsIdle
  /\ ProcIdle /\ StoreIdle /\ AssetIdle /\ MavenIdle /\ LoginIdle /\ LibIdle

NextRules == EvaluateRules

\* is_library_allowed applied to one rule list on one platform
SpecRules == InitRules /\ [][NextRules]_vars

InitAuth == AuthInit /\ DLIdle /\ MergeIdle /\ ResolveIdle /\ RulesIdle
  /\ ExpiryIdle /\ ArgsIdle
  /\ ProcIdle /\ StoreIdle /\ AssetIdle /\ MavenIdle /\ LoginIdle /\ LibIdle

NextAuth == AuthNext

\* one call of complete_microsoft_login or of refresh_full_auth
SpecAuth == InitAuth /\ [][NextAuth]_vars

InitExpiry ==
  /\ ExpiryInit /\ DLIdle /\ MergeIdle /\ ResolveIdle /\ RulesIdle
  /\ AuthIdle /\ ArgsIdle
  /\ ProcIdle /\ StoreIdle /\ AssetIdle /\ MavenIdle /\ LoginIdle /\ LibIdle

InitArgs ==
  /\ ArgsInit /\ DLIdle /\ MergeIdle /\ ResolveIdle /\ AuthIdle
  /\ ExpiryIdle
  /\ ProcIdle /\ StoreIdle /\ AssetIdle /\ MavenIdle /\ LoginIdle /\ LibIdle

NextArgs == ArgsNext

\* the argument vector of one start_game, from the account check to the
\* spawn
SpecArgs == InitArgs /\ [][NextArgs]_vars

NextExpiry == CheckExpired

\* is_token_expired applied to one timestamp at one time
SpecExpiry == InitExpiry /\ [][NextExpiry]_vars

InitProc ==
  /\ ProcInit /\ DLIdle /\ MergeIdle /\ ResolveIdle /\ RulesIdle /\ AuthIdle
  /\ ExpiryIdle /\ ArgsIdle /\ StoreIdle /\ AssetIdle /\ MavenIdle /\ LoginIdle /\ LibIdle

NextProc == ProcNext

\* one spawn of the game; the runtime keeps polling the reader tasks and
\* the exit monitor, and every await of theirs answers
SpecProc ==
  /\ InitProc
  /\ [][NextProc]_vars
  /\ \A s \in Streams : WF_vars(ReadLine(s)) /\ WF_vars(ReadEnds(s))
  /\ WF_vars(ExitMonitor)

InitStore ==
  /\ AuthIdle /\ StoreIdle /\ DLIdle /\ MergeIdle /\ ResolveIdle /\ RulesIdle
  /\ ExpiryIdle /\ ArgsIdle /\ ProcIdle /\ AssetIdle /\ MavenIdle /\ LoginIdle /\ LibIdle

NextStore == StoreNext

\* any sequence of AccountStorage calls on a store that starts empty
SpecStore == InitStore /\ [][NextStore]_vars

InitAssets ==
  /\ AssetInit /\ DLIdle /\ MergeIdle /\ ResolveIdle /\ RulesIdle /\ AuthIdle
  /\ ExpiryIdle /\ ArgsIdle /\ ProcIdle /\ StoreIdle /\ MavenIdle /\ LoginIdle /\ LibIdle

NextAssets == AssetNext

\* the asset loop of one start_game
SpecAssets == InitAssets /\ [][NextAssets]_vars

InitMaven ==
  /\ MavenInit /\ DLIdle /\ MergeIdle /\ ResolveIdle /\ RulesIdle /\ AuthIdle
  /\ ExpiryIdle /\ ArgsIdle /\ ProcIdle /\ StoreIdle /\ AssetIdle /\ LoginIdle /\ LibIdle

NextMaven == MavenNext

\* parse, to_path, to_url and resolve_library_url applied to one name
SpecMaven == InitMaven /\ [][NextMaven]_vars

\* the session commands, one at a time, after startup
InitSession ==
  /\ SessionInit /\ DLIdle /\ MergeIdle /\ ResolveIdle /\ RulesIdle
  /\ ExpiryIdle /\ ArgsIdle /\ ProcIdle /\ AssetIdle /\ MavenIdle /\ LoginIdle /\ LibIdle

NextSession == SessionNext

SpecSession == InitSession /\ [][NextSession]_vars

\* two logins at the same time
InitLogins ==
  /\ LoginsInit /\ DLIdle /\ MergeIdle /\ ResolveIdle /\ RulesIdle
  /\ ExpiryIdle /\ ArgsIdle /\ ProcIdle /\ AssetIdle /\ MavenIdle /\ LibIdle

NextLogins == LoginsNext

SpecLogins == InitLogins /\ [][NextLogins]_vars

\* the library loops of one start_game
InitLibs ==
  /\ LibInit /\ DLIdle /\ MergeIdle /\ ResolveIdle /\ RulesIdle /\ AuthIdle
  /\ ExpiryIdle /\ ArgsIdle /\ ProcIdle /\ StoreIdle /\ MavenIdle /\ LoginIdle

NextLibs == LibNext

SpecLibs == InitLibs /\ [][NextLibs]_vars

(***************************************************************************)
(* Properties of the download engine                                       *)
(***************************************************************************)

RECURSIVE SumOver(_, _)
SumOver(f, S) ==
  IF S = {} THEN 0
  ELSE LET x == CHOOSE y \in S : TRUE IN f[x] + SumOver(f, S \ {x})

ExpectedLimit ==
  IF max_concurrent < 1 THEN 1
  ELSE IF max_concurrent > 128 THEN 128
  ELSE max_concurrent

\* C1: the tasks holding a gate permit at one time are never more than
\* clamp(max_concurrent, 1, 128), and the gate has exactly that many permits
\* (held plus free): a requested 0 gives a gate of 1, a requested 129 a gate
\* of 128.
C1_GateBound ==
  /\ Cardinality(Holders) <= ExpectedLimit
  /\ Cardinality(Holders) + permits = ExpectedLimit

\* a requested bound of 0: one task holds the only permit, the other is kept
\* out of the gate
C1_Witness ==
  /\ max_concurrent = 0
  /\ Cardinality(Holders) = 1
  /\ \E t \in Tasks : pc[t] = "queued"

\* C2: a task has incremented completed_files once when it has ended Skipped
\* or Finished and never otherwise (running, or ended in an error);
\* completed_files <= total_files always; at return completed_files is the
\* number of tasks that ended without error.
C2_CompletedCount ==
  /\ \A t \in Tasks : incs[t] = IF pc[t] \in OkStatus THEN 1 ELSE 0
  /\ completed_files <= NTasks
  /\ phase = "returned" =>
       completed_files = Cardinality({t \in Tasks : pc[t] \in OkStatus})

\* returned with one task counted and one task failed
C2_Witness ==
  /\ phase = "returned"
  /\ completed_files = 1
  /\ \E t \in Tasks : pc[t] \in ErrStatus

\* C3: under every interleaving total_downloaded_bytes is the sum, over all
\* tasks, of the chunk bytes the task wrote (also when it failed later) and
\* of the size of the file it skipped as valid; neither counter ever
\* decreases.
C3_ProgressConsistent ==
  /\ [](total_downloaded_bytes =
          SumOver(wrote, Tasks) + SumOver(skipped_size, Tasks))
  /\ [][/\ total_downloaded_bytes' >= total_downloaded_bytes
         /\ completed_files' >= completed_files]_vars

\* returned: one task wrote a chunk and failed later, the other was skipped
\* with a file of positive size
C3_Witness ==
  /\ phase = "returned"
  /\ \E t, u \in Tasks :
        /\ pc[t] \in ErrStatus /\ wrote[t] > 0
        /\ pc[u] = "Skipped" /\ skipped_size[u] > 0

\* C4: with every network and file operation returning, every task of the
\* list reaches Skipped, Finished or a terminal error whatever happens to
\* the others, download_files returns, and download-complete is emitted
\* only when all tasks have ended.
C4_AllTasksSettle ==
  /\ \A t \in Tasks : <>(pc[t] \in TerminalStatus)
  /\ <>complete
  /\ [](complete => \A t \in Tasks : pc[t] \in TerminalStatus)

\* with one permit: the first task failed, the second one ran after it and
\* ended without error, and the run returned
C4_Witness ==
  /\ complete
  /\ limit = 1
  /\ pc[1] \in ErrStatus
  /\ pc[2] \in OkStatus

\* C5: a task whose read of its existing destination returned content
\* matching the expected digest sends no network request, neither creates
\* nor writes the file, and ends Skipped with exactly one completion event
\* (Verifying, then Skipped) and one increment of completed_files.
C5_ValidFileSkipped ==
  \A t \in Tasks :
    read_valid[t] =>
      /\ requests[t] = 0
      /\ fs_ops[t] = 0
      /\ pc[t] \in {"meta", "Skipped"}
      /\ pc[t] = "Skipped" =>
           /\ emitted[t] = <<"Verifying", "Skipped">>
           /\ incs[t] = 1

\* a task given both digests (SHA-256 matching the file) was skipped
C5_Witness ==
  \E t \in Tasks :
    /\ read_valid[t]
    /\ pc[t] = "Skipped"
    /\ IsSome(tasks[t].sha256) /\ IsSome(tasks[t].sha1)
    /\ fs[tasks[t].path] = File(ContentA)

\* C6: a task whose file did not match its digest in the first run, was
\* re-fetched and ended Finished, sends no network request in a second run
\* with the same digest.  Stated for a task that shares its path with no
\* other task.
C6_RepeatRunSendsNothing ==
  \A t \in Tasks :
    ( /\ run = 2
      /\ prev[t]
      /\ \A u \in Tasks : u # t => tasks[u].path # tasks[t].path )
    => requests[t] = 0

\* C7: the game process is spawned only when every task of the download run
\* ended without error and every file with an expected digest matches it.
C7_NoSpawnAfterFailedArtifact ==
  launch = "spawned" =>
    \A t \in Tasks :
      /\ pc[t] \in OkStatus
      /\ HasDigest(tasks[t]) =>
           /\ fs[tasks[t].path].kind = "file"
           /\ MatchesExpected(fs[tasks[t].path].data, tasks[t])

(***************************************************************************)
(* Properties of the version resolution                                    *)
(***************************************************************************)

\* the ids of the inheritance chain of i, nearest first, at most n links
RECURSIVE ChainIds(_, _)
ChainIds(i, n) ==
  IF n = 0 \/ inherits[i] = None THEN <<i>>
  ELSE <<i>> \o ChainIds(Unwrap(inherits[i]), n - 1)

Chain == ChainIds("v1", Cardinality(Ids))

\* the chain ends (no cycle) and every descriptor of it can be loaded
ChainResolvable ==
  /\ Len(Chain) <= Cardinality(Ids)
  /\ \A k \in 1..Len(Chain) : stored[Chain[k]] # "missing"

RECURSIVE ChainLibraries(_)
ChainLibraries(ids) ==
  IF ids = <<>> THEN <<>>
  ELSE Descriptor(Head(ids)).libraries \o ChainLibraries(Tail(ids))

\* the value of an optional field in the nearest descriptor that defines it
RECURSIVE NearestField(_, _)
NearestField(ids, name) ==
  IF ids = <<>> THEN None
  ELSE IF name \in defines[Head(ids)] THEN Some(<<Head(ids), name>>)
  ELSE NearestField(Tail(ids), name)

\* C8: for a chain of any length that can be loaded, the descriptor that
\* load_version or resolve_inheritance returns has the libraries of every
\* descriptor of the chain, nearest first, and the downloads and the asset
\* index of the nearest descriptor that defines them.
C8_WholeChainMerged ==
  (lv_pc = "done" /\ ChainResolvable) =>
    /\ Unwrap(lv_version).libraries = ChainLibraries(Chain)
    /\ Unwrap(lv_version).downloads = NearestField(Chain, "downloads")
    /\ Unwrap(lv_version).asset_index = NearestField(Chain, "asset_index")

\* the lookups of load_version so far that went to the remote manifest
RemoteLookups == { k \in 1..Len(lv_log) : lv_log[k][1] = "remote" }

\* C11: load_version looks in local storage first, for the requested id and
\* for each parent id; it fetches an id from the remote manifest only right
\* after the local load of that id failed; when the requested descriptor and
\* its parent are both kept locally it fetches nothing; and it ends in an
\* error exactly when an id it needs is in neither place.
C11_LocalFirst ==
  lv_op = "load_version" =>
    /\ lv_log # <<>> => lv_log[1] = <<"local", "v1">>
    /\ \A k \in RemoteLookups :
         /\ k > 1
         /\ lv_log[k - 1] = <<"local", lv_log[k][2]>>
         /\ stored[lv_log[k][2]] \notin {"local", "both"}
    /\ ( /\ stored["v1"] \in {"local", "both"}
         /\ IsSome(inherits["v1"])
         /\ stored[Unwrap(inherits["v1"])] \in {"local", "both"} )
       => (RemoteLookups = {} /\ lv_pc # "error")
    /\ lv_pc = "error" <=>
         /\ lv_log # <<>>
         /\ lv_log[Len(lv_log)][1] = "remote"
         /\ stored[lv_log[Len(lv_log)][2]] = "missing"
    /\ lv_pc = "done" =>
         \A k \in 1..Len(lv_log) : stored[lv_log[k][2]] # "missing"

\* a mod-loader version resolved from two local descriptors that the remote
\* manifest lists as well
C11_Witness ==
  /\ lv_op = "load_version"
  /\ lv_pc = "done"
  /\ inherits["v1"] = Some("v2")
  /\ stored["v1"] = "both"
  /\ stored["v2"] = "both"
  /\ lv_log = << <<"local", "v1">>, <<"local", "v2">> >>

(***************************************************************************)
(* Properties of merge_versions                                            *)
(***************************************************************************)

\* C9: merge_versions(child, parent) has the child's libraries followed by
\* the parent's, each in its order; the child's id and main class; for
\* downloads, asset index and required Java version the child's value when
\* the child has one and the parent's otherwise; and no parent id.
C9_MergeFields ==
  IsSome(m_result) =>
    LET r == Unwrap(m_result) IN
      /\ Len(r.libraries) = Len(m_child.libraries) + Len(m_parent.libraries)
      /\ \A i \in 1..Len(m_child.libraries) :
           r.libraries[i] = m_child.libraries[i]
      /\ \A i \in 1..Len(m_parent.libraries) :
           r.libraries[Len(m_child.libraries) + i] = m_parent.libraries[i]
      /\ r.id = m_child.id
      /\ r.main_class = m_child.main_class
      /\ r.downloads =
           IF m_child.downloads # None THEN m_child.downloads
           ELSE m_parent.downloads
      /\ r.asset_index =
           IF m_child.asset_index # None THEN m_child.asset_index
           ELSE m_parent.asset_index
      /\ r.java_version =
           IF m_child.java_version # None THEN m_child.java_version
           ELSE m_parent.java_version
      /\ r.inherits_from = None

\* the spec's example: child libraries [A..], parent libraries [B..], the
\* downloads only on the parent, a parent that names a parent itself
C9_Witness ==
  /\ IsSome(m_result)
  /\ Len(m_child.libraries) = 2
  /\ Len(m_parent.libraries) = 2
  /\ m_child.downloads = None
  /\ m_parent.downloads # None
  /\ m_parent.inherits_from # None

ArrayItems(v) == Unwrap(v).items

BothArrays(p, c) ==
  /\ IsSome(p) /\ IsSome(c)
  /\ Unwrap(p).kind = "array" /\ Unwrap(c).kind = "array"

\* C10: when child and parent both carry an argument template, each
\* category (game, JVM) that is a list on both sides is merged to the
\* parent's entries followed by the child's, and a category only one side
\* carries is that side's value unchanged; when only one of the two carries
\* a template, that template is the result unchanged.
C10_ArgumentsParentFirst ==
  IsSome(m_result) =>
    LET r == Unwrap(m_result).arguments
        c == m_child.arguments
        p == m_parent.arguments
        CategoryOk(rv, pv, cv) ==
          /\ BothArrays(pv, cv) =>
               /\ IsSome(rv) /\ Unwrap(rv).kind = "array"
               /\ ArrayItems(rv) = ArrayItems(pv) \o ArrayItems(cv)
          /\ (IsSome(pv) /\ ~IsSome(cv)) => rv = pv
          /\ (~IsSome(pv) /\ IsSome(cv)) => rv = cv
          /\ (~IsSome(pv) /\ ~IsSome(cv)) => rv = None
    IN /\ (IsSome(c) /\ IsSome(p)) =>
            /\ IsSome(r)
            /\ CategoryOk(Unwrap(r).game, Unwrap(p).game, Unwrap(c).game)
            /\ CategoryOk(Unwrap(r).jvm, Unwrap(p).jvm, Unwrap(c).jvm)
       /\ (IsSome(c) /\ ~IsSome(p)) => r = c
       /\ (~IsSome(c) /\ IsSome(p)) => r = p
       /\ (~IsSome(c) /\ ~IsSome(p)) => r = None

\* both sides carry non-empty game and JVM lists; the merged game list
\* starts with the parent's first entry and ends with the child's last
C10_Witness ==
  /\ IsSome(m_result)
  /\ IsSome(m_child.arguments) /\ IsSome(m_parent.arguments)
  /\ BothArrays(Unwrap(m_parent.arguments).game, Unwrap(m_child.arguments).game)
  /\ BothArrays(Unwrap(m_parent.arguments).jvm, Unwrap(m_child.arguments).jvm)
  /\ ArrayItems(Unwrap(Unwrap(m_result).arguments).game) =
       << <<"parent", 1>>, <<"parent", 2>>, <<"child", 1>>, <<"child", 2>> >>

(***************************************************************************)
(* Properties of the rule evaluation                                       *)
(***************************************************************************)

RuleList == IF rules = None THEN <<>> ELSE Unwrap(rules)

\* the positions of the rules whose condition matches the platform
Matching == { k \in 1..Len(RuleList) : rule_matches(RuleList[k], consts_OS) }

LastMatching == CHOOSE k \in Matching : \A j \in Matching : j <= k

\* C12: is_library_allowed returns true for an absent or empty rule list;
\* otherwise it returns (action = allow) of the last rule, in input order,
\* whose condition matches the platform, and false when no rule matches.
C12_LastMatchDecides ==
  IsSome(allowed) =>
    Unwrap(allowed) =
      IF RuleList = <<>> THEN TRUE
      ELSE IF Matching = {} THEN FALSE
      ELSE RuleList[LastMatching].action = "allow"

\* a matching disallow followed by a matching allow: the later rule decides
C12_Witness ==
  /\ allowed = Some(TRUE)
  /\ Len(RuleList) = 2
  /\ Matching = {1, 2}
  /\ RuleList[1].action = "disallow"
  /\ RuleList[2].action = "allow"

\* the value of env::consts::OS that an OS name of a rule stands for
PlatformOf(name) == IF name \in {"osx", "macos"} THEN "macos" ELSE name

AllowThenDisallowOn(name) ==
  Some(<< [action |-> "allow", os |-> None, features |-> None],
          [action |-> "disallow",
           os |-> Some([name |-> Some(name), version |-> None,
                        arch |-> None]),
           features |-> None] >>)

FeatureGated == { k \in 1..Len(RuleList) : IsSome(RuleList[k].features) }

\* C14: a rule with a feature condition never matches, whatever its action
\* and OS condition, and leaves the running result as it was; an entry
\* whose rules are all feature-gated is excluded on every platform.
C14_FeatureRulesNeverApply ==
  IsSome(allowed) =>
    /\ \A k \in FeatureGated :
         /\ k \notin Matching
         /\ \A b \in BOOLEAN :
              apply_rules(<< RuleList[k] >>, consts_OS, b) = b
    /\ (RuleList # <<>> /\ FeatureGated = 1..Len(RuleList))
         => Unwrap(allowed) = FALSE

\* two feature-gated rules without OS condition, the last one an allow
C14_Witness ==
  /\ allowed = Some(FALSE)
  /\ Len(RuleList) = 2
  /\ FeatureGated = {1, 2}
  /\ RuleList[2].action = "allow"
  /\ RuleList[2].os = None

(***************************************************************************)
(* Properties of the credential chain                                      *)
(***************************************************************************)

\* what the server of a hop issues when asked with `input`
Issued(hop, input) ==
  IF hop = "token" THEN << "access", input >>
  ELSE IF hop = "xbox_live" THEN << "xbl", input >>
  ELSE << hop, input >>

\* C15: in one login or one refresh the hops run in the order token
\* exchange, platform session token, relying-party token, game-service
\* login, profile fetch, each at most once and each called with what the
\* hop before it issued (the game-service login also with the user hash of
\* the platform session); a hop is called only after every earlier hop
\* succeeded, and when a hop fails the operation ends with that hop's error.
C15_HopsInOrder ==
  auth_op # "idle" =>
    /\ Len(auth_calls) <= Len(Hops)
    /\ \A k \in 1..Len(auth_calls) :
         /\ auth_calls[k].hop = Hops[k]
         /\ k < Len(auth_calls) => IsOk(auth_calls[k].outcome)
         /\ k = 1 => auth_calls[k].input = auth_input
         /\ k \in {2, 3, 5} =>
              auth_calls[k].input = Issued(Hops[k - 1], auth_calls[k - 1].input)
         /\ k = 4 =>
              auth_calls[k].input =
                << Issued("xsts", auth_calls[3].input),
                   << "uhs", auth_calls[2].input >> >>
    /\ (auth_calls # <<>> /\ ~IsOk(auth_calls[Len(auth_calls)].outcome)) =>
         /\ auth_pc = "error"
         /\ auth_result = auth_calls[Len(auth_calls)].outcome
    /\ auth_pc \in {"save", "done"} =>
         /\ Len(auth_calls) = Len(Hops)
         /\ IsOk(auth_calls[Len(Hops)].outcome)

\* the third hop failed: two hops before it, none after it
C15_Witness ==
  /\ auth_op = "refresh_full_auth"
  /\ auth_pc = "error"
  /\ Len(auth_calls) = 3
  /\ auth_calls[3].hop = "xsts"
  /\ auth_calls[3].status = 400

\* C16: at every hop, the token poll and the refresh-token request
\* included, a response whose status is not 2xx gives an error and never a
\* token, whatever its body is.
C16_Non2xxIsError ==
  \A k \in 1..Len(auth_calls) :
    auth_calls[k].status # 200 => ~IsOk(auth_calls[k].outcome)

\* C17: one complete_microsoft_login sends one token request; when the
\* answer is authorization_pending, expired_token or access_denied it
\* returns that outcome and leaves the active account, the in-memory
\* refresh token and the credential store as they were.
C17_PollOnceNoEffect ==
  auth_op = "complete_microsoft_login" =>
    /\ Cardinality({ k \in 1..Len(auth_calls) :
                       auth_calls[k].hop = "token" })
         = IF auth_pc = "token" THEN 0 ELSE 1
    /\ (auth_calls # <<>> /\ auth_calls[1].body \in PollErrors) =>
         /\ Len(auth_calls) = 1
         /\ auth_pc = "error"
         /\ auth_result = Err(auth_calls[1].body)
         /\ Session = auth_before

\* a poll answered authorization_pending while an account is logged in
C17_Witness ==
  /\ auth_op = "complete_microsoft_login"
  /\ auth_pc = "error"
  /\ auth_calls # <<>>
  /\ auth_calls[1].body = "authorization_pending"
  /\ auth_before.active_account = Some(OldMicrosoftAccount)

(***************************************************************************)
(* Properties of is_token_expired                                          *)
(***************************************************************************)

\* the seconds left before the recorded expiry
SecondsLeft == expires_at - now

\* C18: is_token_expired is true exactly when fewer than 300 seconds are
\* left: false with exactly 300 left, true with 299 left, true when the
\* expiry is past.
C18_ExpiredBelowMargin ==
  IsSome(expired) =>
    /\ Unwrap(expired) <=> SecondsLeft < 300
    /\ SecondsLeft = 300 => Unwrap(expired) = FALSE
    /\ SecondsLeft = 299 => Unwrap(expired) = TRUE
    /\ SecondsLeft < 0 => Unwrap(expired) = TRUE

\* a token with exactly 300 seconds left
C18_Witness ==
  /\ expired = Some(FALSE)
  /\ SecondsLeft = 300

(***************************************************************************)
(* Properties of the argument vector                                       *)
(***************************************************************************)

\* the argument carries the access token of the account
CarriesToken(arg) ==
  \E j \in 1..Len(arg) : arg[j] = Val(access_token(Unwrap(account)))

\* C19: a launch never hands the game process the access token of a
\* Microsoft account that is expired under the 300-second policy.
C19_NoExpiredTokenSpawned ==
  (arg_pc = "spawned" /\ Unwrap(account).type = "Microsoft"
     /\ \E i \in 1..Len(args) : CarriesToken(args[i]))
    => Unwrap(account).expires_at - clock >= 300

\* C20: no element of the final argument vector has a ${...} placeholder
\* left in it.
C20_NoPlaceholderLeft ==
  arg_pc \in {"spawn", "spawned"} =>
    \A i \in 1..Len(args) : \A j \in 1..Len(args[i]) : args[i][j][1] # "ph"

(***************************************************************************)
(* Properties of the assembled command line                                *)
(***************************************************************************)
\* the position of the main class in the assembled arguments, 0 before it
\* has been pushed
MainClassAt ==
  IF \E i \in 1..Len(args) : args[i] = << Val("main_class") >>
  THEN CHOOSE i \in 1..Len(args) :
         /\ args[i] = << Val("main_class") >>
         /\ \A k \in 1..(i - 1) : args[k] # << Val("main_class") >>
  ELSE 0

StartsWith(arg, text) == arg # <<>> /\ arg[1] = Lit(text)

JvmPartStarting(text) ==
  { i \in 1..(MainClassAt - 1) : StartsWith(args[i], text) }

\* the strings of the JVM template of the descriptor, as written there
RECURSIVE TemplateStrings(_)
TemplateStrings(list) ==
  IF list = <<>> THEN <<>>
  ELSE (IF Head(list).kind = "string" THEN << Head(list).str >>
        ELSE IF Head(list).kind = "object"
             THEN value_strings(Head(list).value)
        ELSE <<>>)
       \o TemplateStrings(Tail(list))

JvmTemplateStrings ==
  IF version_details # <<>>
     /\ IsSome(version_details.arguments)
     /\ IsSome(Unwrap(version_details.arguments).jvm)
     /\ Unwrap(Unwrap(version_details.arguments).jvm).kind = "array"
  THEN TemplateStrings(Unwrap(Unwrap(version_details.arguments).jvm).items)
  ELSE <<>>

\* C21: once the main class has been pushed, the arguments before it hold
\* exactly one argument starting with -Xmx and exactly one starting with
\* -Xms, each built from the configured memory bound; no argument taken
\* from the JVM template (plain string, conditional string or element of a
\* conditional array) starts with -Xmx or -Xms.
C21_OneMemoryPair ==
  /\ arg_pc = "fixed" =>
       \A i \in 1..Len(args) :
          ~StartsWith(args[i], "-Xmx") /\ ~StartsWith(args[i], "-Xms")
  /\ arg_pc \in {"game", "spawn", "spawned"} =>
       /\ MainClassAt > 0
       /\ Cardinality(JvmPartStarting("-Xmx")) = 1
       /\ Cardinality(JvmPartStarting("-Xms")) = 1
       /\ \A i \in JvmPartStarting("-Xmx") :
             args[i] = << Lit("-Xmx"), Val("max_memory"), Lit("M") >>
       /\ \A i \in JvmPartStarting("-Xms") :
             args[i] = << Lit("-Xms"), Val("min_memory"), Lit("M") >>

\* a launch was spawned from a template with a conditional -Xmx string and
\* a conditional array holding -Xms
C21_Witness ==
  /\ arg_pc = "spawned"
  /\ \E i \in 1..Len(JvmTemplateStrings) :
        StartsWith(JvmTemplateStrings[i], "-Xmx")
  /\ \E i \in 1..Len(JvmTemplateStrings) :
        StartsWith(JvmTemplateStrings[i], "-Xms")

\* the arguments taken from the JVM template of the descriptor
TemplateJvmArgs ==
  IF IsSome(version_details.arguments)
     /\ IsSome(Unwrap(version_details.arguments).jvm)
  THEN parse_jvm_arguments(Unwrap(Unwrap(version_details.arguments).jvm),
                           consts_OS)
  ELSE <<>>

MemoryBounds ==
  << << Lit("-Xmx"), Val("max_memory"), Lit("M") >>,
     << Lit("-Xms"), Val("min_memory"), Lit("M") >> >>

NativesFlag == << Lit("-Djava.library.path="), Val("natives_directory") >>

Mentions(list, text) ==
  \E i \in 1..Len(list) : \E j \in 1..Len(list[i]) : list[i][j] = Lit(text)

\* C22: the assembled arguments are the template JVM arguments, the memory
\* bounds, the native-library-path flag if and only if no earlier argument
\* contains -Djava.library.path, -cp with the classpath if and only if no
\* earlier argument equals -cp or -classpath, the main class, and then the
\* game arguments.
C22_ArgumentOrder ==
  arg_pc \in {"game", "spawn", "spawned"} =>
    LET early  == TemplateJvmArgs \o MemoryBounds
        withN  == IF Mentions(early, "-Djava.library.path=")
                  THEN early ELSE Append(early, NativesFlag)
        withCp == IF \A i \in 1..Len(withN) :
                        /\ withN[i] # << Lit("-cp") >>
                        /\ withN[i] # << Lit("-classpath") >>
                  THEN withN \o << << Lit("-cp") >>, << Val("classpath") >> >>
                  ELSE withN
        game   == IF arg_pc = "game" THEN <<>>
                  ELSE game_arguments(version_details,
                                      GameReplacements(Unwrap(account)),
                                      consts_OS)
    IN /\ args = withCp \o << << Val("main_class") >> >> \o game
       /\ MainClassAt = Len(withCp) + 1

\* a launch was spawned whose template names the native library path but
\* not the classpath, and which has game arguments
C22_Witness ==
  /\ arg_pc = "spawned"
  /\ Mentions(TemplateJvmArgs, "-Djava.library.path=")
  /\ ~has_classpath_flag(TemplateJvmArgs)
  /\ MainClassAt < Len(args)
  /\ args[MainClassAt - 1] = << Val("classpath") >>

(***************************************************************************)
(* Properties of the process supervision                                   *)
(***************************************************************************)
GameExited ==
  { i \in 1..Len(window_events) : window_events[i].event = "game-exited" }

\* C23: for every game process that was spawned and terminates, exactly
\* one game-exited event is emitted, after the termination, and it carries
\* the exit code of the process, or -1 when it has none.
C23_ExitReported ==
  /\ [](child_proc = "exited" => <>(Cardinality(GameExited) = 1))
  /\ [](Cardinality(GameExited) <= 1)
  /\ [](\A i \in GameExited :
          /\ child_proc = "exited"
          /\ window_events[i].payload =
               IF IsSome(Unwrap(child_status).code)
               THEN Unwrap(Unwrap(child_status).code) ELSE 0 - 1)

(***************************************************************************)
(* Properties of the account file                                          *)
(***************************************************************************)
RecordsOf(st, id) ==
  { i \in 1..Len(st.accounts) : st.accounts[i].uuid = id }

\* C24: the store holds at most one record per account id; after
\* add_or_update_account has saved, the one record of that id is the record
\* of the account and refresh token given, none of its fields coming from
\* the record it replaced, and the records of the other ids are as before.
C24_OneRecordPerId ==
  /\ \A id \in StoreIds : Cardinality(RecordsOf(store, id)) <= 1
  /\ (store_call # <<>> /\ store_call.op = "add_or_update_account"
      /\ store_call.result = "Ok") =>
       LET acc == store_call.arguments[1]
           tok == store_call.arguments[2]
       IN /\ \A i \in RecordsOf(store, acc.uuid) :
                /\ store.accounts[i].type = acc.type
                /\ store.accounts[i].username = acc.username
                /\ acc.type = "Microsoft" =>
                     /\ store.accounts[i].access_token = acc.access_token
                     /\ store.accounts[i].refresh_token = acc.refresh_token
                     /\ store.accounts[i].expires_at = acc.expires_at
                     /\ store.accounts[i].ms_refresh_token = tok
                /\ acc.type = "Offline" =>
                     DOMAIN store.accounts[i] = {"type", "username", "uuid"}
          /\ Cardinality(RecordsOf(store, acc.uuid)) = 1
          /\ \A id \in StoreIds \ {acc.uuid} :
                { store.accounts[i] : i \in RecordsOf(store, id) } =
                { store_call.before.accounts[i] :
                    i \in RecordsOf(store_call.before, id) }

\* add_or_update_account has replaced a record of the same id that held
\* another token, in a store with a second account
C24_Witness ==
  /\ store_call # <<>>
  /\ store_call.op = "add_or_update_account"
  /\ store_call.result = "Ok"
  /\ Len(store.accounts) >= 2
  /\ \E i \in RecordsOf(store_call.before, store_call.arguments[1].uuid) :
        /\ store_call.before.accounts[i].type = "Microsoft"
        /\ store_call.before.accounts[i].access_token
             # store_call.arguments[1].access_token
        /\ store_call.before.accounts[i].ms_refresh_token
             # store_call.arguments[2]

(***************************************************************************)
(* Properties of the asset tasks                                           *)
(***************************************************************************)
\* C25: the task list handed to the download engine has one task per
\* unique object of the index: no two tasks have the same destination
\* path, whatever names share a hash.
C25_OneTaskPerObject ==
  (download_tasks # <<>> /\ asset_todo = {}) =>
     /\ \A i, j \in 1..Len(download_tasks) :
           i # j => download_tasks[i].path # download_tasks[j].path
     /\ Len(download_tasks) =
          1 + Cardinality({ asset_objects[n] : n \in DOMAIN asset_objects })

(***************************************************************************)
(* Properties of the Maven coordinates                                     *)
(***************************************************************************)
Positions(str, ch) == { i \in 1..Len(str) : str[i] = ch }

LastAt ==
  IF Positions(mv_name, "@") = {} THEN 0
  ELSE CHOOSE i \in Positions(mv_name, "@") :
         \A k \in Positions(mv_name, "@") : k <= i

BeforeExtension ==
  IF LastAt = 0 THEN mv_name ELSE SubSeq(mv_name, 1, LastAt - 1)

Parsed == Unwrap(Unwrap(mv_coord))

\* C26: parse succeeds exactly when the part before the last "@" (the whole
\* string when there is none) has two or three ":", that is three or four
\* segments; the segments are group, artifact, version and the optional
\* classifier, and the extension is the text after the last "@", or jar.
C26_ParseExactly ==
  mv_coord # None =>
    LET colons == Cardinality(Positions(BeforeExtension, ":"))
    IN /\ IsSome(Unwrap(mv_coord)) <=> colons \in {2, 3}
       /\ IsSome(Unwrap(mv_coord)) =>
            /\ Parsed.extension =
                 IF LastAt = 0 THEN << "jar" >>
                 ELSE SubSeq(mv_name, LastAt + 1, Len(mv_name))
            /\ IsSome(Parsed.classifier) <=> colons = 3
            /\ BeforeExtension =
                 Parsed.group \o << ":" >> \o Parsed.artifact \o << ":" >>
                 \o Parsed.version
                 \o (IF colons = 3
                     THEN << ":" >> \o Unwrap(Parsed.classifier) ELSE <<>>)
            /\ Positions(Parsed.group, ":") = {}
            /\ Positions(Parsed.artifact, ":") = {}
            /\ Positions(Parsed.version, ":") = {}

\* a name with two "@" was parsed into four segments and an extension
C26_Witness ==
  /\ mv_coord # None
  /\ IsSome(Unwrap(mv_coord))
  /\ IsSome(Parsed.classifier)
  /\ Cardinality(Positions(mv_name, "@")) = 2
  /\ Parsed.extension # <<>>

RECURSIVE Joined(_, _)
Joined(parts, sep) ==
  IF Len(parts) = 1 THEN parts[1]
  ELSE parts[1] \o << sep >> \o Joined(Tail(parts), sep)

TrailingSlashes(str) ==
  CHOOSE k \in 0..Len(str) :
    /\ \A i \in (Len(str) - k + 1)..Len(str) : str[i] = "/"
    /\ k < Len(str) => str[Len(str) - k] # "/"

\* C27: to_path is the group with its dots turned into slashes, the
\* artifact, the version and the file name artifact-version[-classifier]
\* .extension, joined by slashes; to_url is the base URL without its
\* trailing slashes, one slash, and the path, so a base with and without a
\* trailing slash give the same URL.
C27_PathAndUrl ==
  mv_url # None =>
    LET group_dirs == split(Parsed.group, ".", <<>>)
        name_parts == << Parsed.artifact, Parsed.version >>
                      \o (IF IsSome(Parsed.classifier)
                          THEN << Unwrap(Parsed.classifier) >> ELSE <<>>)
        file == Joined(<< Joined(name_parts, "-"), Parsed.extension >>, ".")
        path == Joined(group_dirs \o << Parsed.artifact, Parsed.version,
                                        file >>, "/")
        stem == SubSeq(mv_base, 1, Len(mv_base) - TrailingSlashes(mv_base))
    IN /\ Unwrap(mv_path) = path
       /\ Unwrap(mv_url) = stem \o << "/" >> \o path
       /\ Unwrap(mv_url) = to_url(Parsed, stem)
       /\ Unwrap(mv_url) = to_url(Parsed, Append(stem, "/"))

\* the URL of a coordinate with a dotted group and a classifier was built
\* on a base that ends in a slash
C27_Witness ==
  /\ mv_url # None
  /\ mv_base # <<>>
  /\ mv_base[Len(mv_base)] = "/"
  /\ IsSome(Parsed.classifier)
  /\ Positions(Parsed.group, ".") # {}

\* C28: resolve_library_url returns the explicit URL unchanged when one is
\* given, even for a name that is no coordinate; otherwise nothing for such
\* a name; otherwise the coordinate's URL on the repository hint when one
\* is given, else on the Fabric repository for a group starting with
\* net.fabricmc, on the Forge repository for one starting with
\* net.minecraftforge or cpw.mods, and on the base-game repository for
\* every other group.
C28_ResolveOrder ==
  mv_resolved # None =>
    LET r == Unwrap(mv_resolved)
        c == parse(mv_name)
        g == Unwrap(c).group
        Begins(prefix) == Len(g) >= Len(prefix)
                          /\ \A i \in 1..Len(prefix) : g[i] = prefix[i]
    IN /\ IsSome(mv_explicit_url) => r = mv_explicit_url
       /\ (mv_explicit_url = None /\ c = None) => r = None
       /\ (mv_explicit_url = None /\ c # None /\ IsSome(mv_maven_url)) =>
            r = Some(to_url(Unwrap(c), Unwrap(mv_maven_url)))
       /\ (mv_explicit_url = None /\ c # None /\ mv_maven_url = None) =>
            r = Some(to_url(Unwrap(c),
                  IF Begins(<< "net", ".", "fabricmc" >>) THEN FABRIC_MAVEN
                  ELSE IF Begins(<< "net", ".", "minecraftforge" >>)
                          THEN FORGE_MAVEN
                  ELSE IF Begins(<< "cpw", ".", "mods" >>) THEN FORGE_MAVEN
                  ELSE MOJANG_LIBRARIES))

\* an explicit URL was returned for a name that is no coordinate
C28_Witness ==
  /\ mv_resolved # None
  /\ IsSome(mv_explicit_url)
  /\ parse(mv_name) = None
  /\ Unwrap(mv_resolved) = mv_explicit_url

(***************************************************************************)
(* Properties of the download engine's verification                        *)
(***************************************************************************)
\* C29: a task with a digest that ended Finished after a network fetch
\* left content matching the digest at its destination.  Stated for a task
\* that shares its path with no other task.
C29_FinishedMeansVerified ==
  \A t \in Tasks :
    ( /\ pc[t] = "Finished"
      /\ HasDigest(tasks[t])
      /\ \A u \in Tasks : u # t => tasks[u].path # tasks[t].path )
    => /\ fs[tasks[t].path].kind = "file"
       /\ MatchesExpected(fs[tasks[t].path].data, tasks[t])

\* C30: a task with no digest whose destination existed when the task
\* looked sends no request and ends Skipped, counted once; a task with
\* digests is skipped only when the content read matched the SHA-256
\* digest if one is given and the SHA-1 digest otherwise.
C30_ExistingFileWithoutDigest ==
  \A t \in Tasks :
    /\ ( /\ ~HasDigest(tasks[t])
         /\ emitted[t] # <<>>
         /\ emitted[t][1] = "Verifying" )
       => /\ requests[t] = 0
          /\ pc[t] \in {"meta", "Skipped"}
          /\ pc[t] = "Skipped" => incs[t] = 1
    /\ (HasDigest(tasks[t]) /\ pc[t] \in {"meta", "Skipped"})
       => read_valid[t]

(***************************************************************************)
(* Properties of the OS conditions                                         *)
(***************************************************************************)
\* the platform the launcher runs on: a 64-bit build on an OS whose version
\* is 6.8
RunningArch == "x86_64"

RunningVersion == << "6", ".", "8" >>

\* the version condition is a regular expression; "^10\\." asks for a
\* version that begins with 10.
VersionSatisfied(regex) ==
  regex = "^10\\." /\ RunningVersion[1] = "10" /\ RunningVersion[2] = "."

\* the rule has no feature condition and the platform satisfies every
\* field its OS condition gives
SatisfiesEveryField(rule) ==
  /\ rule_matches(rule, consts_OS)
  /\ rule.os # None =>
       /\ IsSome(Unwrap(rule.os).arch) =>
            Unwrap(Unwrap(rule.os).arch) = RunningArch
       /\ IsSome(Unwrap(rule.os).version) =>
            VersionSatisfied(Unwrap(Unwrap(rule.os).version))

FullyMatching == { k \in 1..Len(RuleList) : SatisfiesEveryField(RuleList[k]) }

\* C31: a rule whose OS condition gives a name, version or architecture
\* the running platform does not have does not match and leaves the result
\* as it was: the value returned is decided by the last rule whose every
\* given field is satisfied, and is false when there is none.
C31_OsConditionAllFields ==
  (IsSome(allowed) /\ RuleList # <<>>) =>
    Unwrap(allowed) =
      IF FullyMatching = {} THEN FALSE
      ELSE LET last == CHOOSE k \in FullyMatching :
                         \A j \in FullyMatching : j <= k
           IN RuleList[last].action = "allow"

(***************************************************************************)
(* Properties of the client jar of a modded version                        *)
(***************************************************************************)
\* C32: when the version start_game loaded inherits from a vanilla version
\* (a parent that has no parent itself), the client jar's path, used for
\* the download task and for the classpath, is
\* versions/<parent id>/<parent id>.jar.
C32_ClientJarOfParent ==
  ( /\ lv_op = "load_version"
    /\ lv_pc = "done"
    /\ IsSome(inherits["v1"])
    /\ Unwrap(inherits["v1"]) # "v1"
    /\ inherits[Unwrap(inherits["v1"])] = None )
  => client_path(minecraft_version(Unwrap(lv_version), "v1"))
       = client_path(Unwrap(inherits["v1"]))

(***************************************************************************)
(* C34  complete_microsoft_login, a hop after the token exchange fails     *)
(***************************************************************************)
\* the same token (or both none); tokens of different shapes are told apart
\* by what they print as
SameToken(a, b) == ToString(a) = ToString(b)

\* the same account or stored record, field by field
SameAccount(a, b) ==
  /\ DOMAIN a = DOMAIN b
  /\ a.type = b.type
  /\ a.uuid = b.uuid
  /\ a.username = b.username
  /\ a.type = "Microsoft" =>
       /\ SameToken(a.access_token, b.access_token)
       /\ SameToken(a.refresh_token, b.refresh_token)
       /\ a.expires_at = b.expires_at
       /\ "ms_refresh_token" \in DOMAIN a =>
            SameToken(a.ms_refresh_token, b.ms_refresh_token)

\* the same active account, or none on both sides
SameActive(a, b) ==
  /\ IsSome(a) = IsSome(b)
  /\ IsSome(a) => SameAccount(Unwrap(a), Unwrap(b))

\* the same records in the same order and the same active pointer
SameStore(s, t) ==
  /\ s.active_account_id = t.active_account_id
  /\ Len(s.accounts) = Len(t.accounts)
  /\ \A i \in 1..Len(s.accounts) : SameAccount(s.accounts[i], t.accounts[i])

\* a hop after the device-code token exchange returned an error
LaterHopFailed ==
  /\ Len(auth_calls) >= 2
  /\ auth_calls[Len(auth_calls)].hop # "token"
  /\ ~IsOk(auth_calls[Len(auth_calls)].outcome)

\* C34: when a hop after the device-code token exchange fails during
\* complete_microsoft_login, the login returns that hop's error and the
\* session is as before the call: the active account and the in-memory
\* refresh token are unmodified.
C34_LaterFailureLeavesSession ==
  (auth_op = "complete_microsoft_login" /\ LaterHopFailed) =>
    /\ auth_pc = "error"
    /\ auth_result = auth_calls[Len(auth_calls)].outcome
    /\ SameActive(active_account, auth_before.active_account)
    /\ SameToken(ms_refresh_state, auth_before.ms_refresh_state)

(***************************************************************************)
(* C33  refresh_account                                                    *)
(***************************************************************************)
\* every hop of the chain was called and succeeded
EveryHopSucceeded ==
  /\ Len(auth_calls) = Len(Hops)
  /\ \A k \in 1..Len(auth_calls) : IsOk(auth_calls[k].outcome)

\* the refresh token that goes with the new credential: the newly issued
\* one, or the one the refresh was started with when none was issued
RefreshTokenToKeep ==
  IF IsSome(Unwrap(token_resp).refresh_token)
  THEN Unwrap(Unwrap(token_resp).refresh_token)
  ELSE Unwrap(Unwrap(get_active_account(auth_before.store))[2])

\* the session holds the new credential
SessionReplaced ==
  /\ SameActive(active_account, Some(NewAccount))
  /\ SameToken(ms_refresh_state, Some(RefreshTokenToKeep))

\* the store holds the new credential, and it is the active record
RecordReplaced ==
  /\ IsSome(get_active_account(store))
  /\ SameAccount(Unwrap(get_active_account(store))[1],
                 [type |-> "Microsoft",
                  username |-> NewAccount.username,
                  uuid |-> NewAccount.uuid,
                  access_token |-> NewAccount.access_token,
                  refresh_token |-> NewAccount.refresh_token,
                  ms_refresh_token |-> Some(RefreshTokenToKeep),
                  expires_at |-> NewAccount.expires_at])
  /\ SameToken(Unwrap(get_active_account(store))[2], Some(RefreshTokenToKeep))
  /\ Cardinality(RecordsOf(store, NewAccount.uuid)) = 1

\* the refresh ran to its end
RefreshReturned ==
  /\ auth_op = "refresh_full_auth"
  /\ auth_pc \in {"updated", "error"}

SessionIsStoreActive ==
  LET designated == get_active_account(store) IN
    IF IsSome(active_account)
    THEN /\ IsSome(designated)
         /\ Unwrap(designated)[1].uuid = Unwrap(active_account).uuid
    ELSE ~IsSome(designated)

\* C35: after startup and after each login_offline,
\* complete_microsoft_login, refresh_account or logout that completed with
\* Ok, issued one at a time in any sequence, the session's in-memory active
\* account and the account the store's active pointer designates are the
\* same account or both none.
C35_SessionMatchesStore ==
  (store_call = <<>> \/ store_call.result = "Ok") => SessionIsStoreActive

\* C36: when two logins for different accounts ran at the same time and
\* both have returned Ok, the store holds the records of both accounts and
\* the store's active pointer designates the session's active account.
C36_BothLoginsKept ==
  (\A p \in Logins : login_pc[p] = "done") =>
    /\ \A p \in Logins :
         Cardinality(RecordsOf(store, login_account(p).uuid)) = 1
    /\ SessionIsStoreActive

(***************************************************************************)
(* C40  the store's active pointer                                         *)
(***************************************************************************)
\* the ids of the records of a store
IdsOf(st) == { st.accounts[i].uuid : i \in 1..Len(st.accounts) }

\* the records of a store other than those of one id, in order
Remaining(st, id) == SelectSeq(st.accounts, LAMBDA a : a.uuid # id)

\* C40: after any sequence of add_or_update_account, remove_account and
\* set_active_account from the empty store the active pointer is none or
\* the id of a record present in the store; set_active_account with an id
\* that is not in the store returns an error and leaves the store as it
\* was; a remove_account of the active account that was saved leaves the
\* pointer at the first remaining record, or at none when no record remains.
C40_ActivePointerValid ==
  /\ IsSome(store.active_account_id) =>
       Unwrap(store.active_account_id) \in IdsOf(store)
  /\ (/\ store_call # <<>>
      /\ store_call.op = "set_active_account"
      /\ store_call.arguments[1] \notin IdsOf(store_call.before)) =>
       /\ store_call.result = "Account not found"
       /\ store = store_call.before
  /\ (/\ store_call # <<>>
      /\ store_call.op = "remove_account"
      /\ store_call.result = "Ok"
      /\ store_call.before.active_account_id = Some(store_call.arguments[1])) =>
       LET remaining == Remaining(store_call.before, store_call.arguments[1])
       IN  /\ store.accounts = remaining
           /\ store.active_account_id =
                IF Len(remaining) = 0 THEN None
                ELSE Some(remaining[1].uuid)

\* the active account of a store of two was removed
C40_Witness ==
  /\ store_call # <<>>
  /\ store_call.op = "remove_account"
  /\ store_call.result = "Ok"
  /\ store_call.before.active_account_id = Some(store_call.arguments[1])
  /\ Len(store_call.before.accounts) = 2
  /\ Len(store.accounts) = 1

(***************************************************************************)
(* C39  the inheritance loop ends                                          *)
(***************************************************************************)
\* the call has returned: Ok with a descriptor without a parent id, or Err
Returned ==
  \/ lv_pc = "error"
  \/ /\ lv_pc = "done"
     /\ IsSome(lv_version)
     /\ Unwrap(lv_version).inherits_from = None

\* the ids the call asked for, in order
IdsLoaded == [k \in 1..Len(lv_log) |-> lv_log[k][2]]

\* the chain of v1 comes back to an id it already holds
CyclicChain ==
  \/ inherits["v1"] = Some("v1")
  \/ /\ inherits["v1"] = Some("v2")
     /\ inherits["v2"] \in { Some("v1"), Some("v2") }

\* C39: load_version and resolve_inheritance end for every input, a cyclic
\* inheritance chain included, provided each single load returns: at most
\* two ids are loaded, each from at most two sources, and the call returns
\* a descriptor whose parent id is none, or an error.
C39_Terminates ==
  /\ [](Len(lv_log) <= 4 /\ Cardinality({ IdsLoaded[k] : k \in 1..Len(lv_log) }) <= 2)
  /\ <>[]Returned

\* a call on a cyclic chain has returned Ok
C39_Witness ==
  /\ CyclicChain
  /\ lv_pc = "done"
  /\ Len(lv_log) >= 2

(***************************************************************************)
(* C38  the counts the download-progress events carry                      *)
(***************************************************************************)
\* C38: the download-progress events of one download_files invocation
\* carry, in the order they are emitted and under every interleaving of the
\* tasks, completed_files and total_downloaded_bytes that never decrease
\* from one event to the next; the completed_files values carried by the
\* Skipped and Finished events are pairwise distinct.
C38_EventCountsMonotonic ==
  /\ [][(IsSome(last_progress) /\ IsSome(last_progress')) =>
          /\ Unwrap(last_progress').completed_files
               >= Unwrap(last_progress).completed_files
          /\ Unwrap(last_progress').total_downloaded_bytes
               >= Unwrap(last_progress).total_downloaded_bytes]_vars
  /\ [](\A t, u \in Tasks :
          (t # u /\ IsSome(final_count[t]) /\ IsSome(final_count[u])) =>
            final_count[t] # final_count[u])

\* the second task of the list was skipped first, then the first task
\* finished its download, its Verifying event emitted in between
C38_Witness ==
  /\ pc[1] = "Finished"
  /\ pc[2] = "Skipped"
  /\ final_count[2] = Some(1)
  /\ final_count[1] = Some(2)
  /\ emitted[1][1] = "Verifying"
  /\ Unwrap(last_progress).total_downloaded_bytes > skipped_size[2]

(***************************************************************************)
(* C37  the classpath and the libraries that were downloaded              *)
(***************************************************************************)
\* the libraries a main-artifact task was pushed for, in descriptor order
WithMainTask ==
  SelectSeq([i \in 1..Len(lib_list) |-> i],
            LAMBDA i : IsSome(lib_main_path[i]))

\* C37: the classpath start_game builds is, in descriptor order, the path
\* of the main-artifact task of every allowed library it created one for
\* (from the explicit artifact or Maven-resolved), followed by the client
\* jar as its last entry.
C37_DownloadedLibrariesOnClasspath ==
  cp_pc = "done" =>
    classpath_entries =
      [k \in 1..Len(WithMainTask) |-> Unwrap(lib_main_path[WithMainTask[k]])]
        \o << client_path("1.20") >>

====
